---- MODULE Spec2Model ----
(***************************************************************************)
(* The agent registry and grid layout of the Codex Grove visualizer, in    *)
(* its two variants: the Phaser scene (CodexScene / AgentManager / Agent / *)
(* GameHud) and the Pixi visualizer (CodexVisualizer / AgentManager /      *)
(* Agent).  Both variants consume the same CodexEvent stream.  A behaviour *)
(* is a run of one of the two builds, chosen in the initial state.  The    *)
(* specifications differ in their inputs: single events (Spec, GridSpec,   *)
(* TwinSpec), arrays of events (BatchSpec), frame ticks (TickSpec,         *)
(* AnimSpec), the WebSocket bridge of main.ts (WsSpec) and its mock        *)
(* generator (MockSpec).                                                   *)
(***************************************************************************)
EXTENDS Integers, Sequences, FiniteSets, TLC

VARIABLES
  phaser,     \* Phaser AgentManager: agents, stateById, order, layoutSize
  hud,        \* Phaser GameHud: the last-event line
  pixi,       \* Pixi AgentManager: agents, order, layoutSize
  variant,    \* which build runs: "phaser" or "pixi"
  twin,       \* a second AgentManager of the running build, fed separately
  lastSummary,\* Phaser CodexScene: the summary last handed to the HUD, as a
              \* set that is empty while there is none
  mock,       \* main.ts startMock: counter, active and the pending timers
  last        \* history: the operation applied by the latest step

vars == <<phaser, hud, pixi, variant, twin, lastSummary, mock, last>>

(***************************************************************************)
(* Bounds of the model.                                                    *)
(***************************************************************************)
\* Largest number of agents registered at once (the code has no limit).
MaxAgents == 3
\* Rows of 16px frames in the hero sprite sheet (an asset, not in the code).
HeroSheetRows == 3

\* Longest array of events handed to emit in one call.
MaxBatch == 2
\* Largest value of an agent's animation clock.
MaxTime == 2

\* The value of an optional field that is absent (JavaScript undefined).
Undefined == "<undefined>"

\* Inputs of the detailed specification: two ids, every kind of name and
\* label (absent, empty, given), one viewport of two columns.
Ids == {"c1", "c2"}
NameInputs == {Undefined, "Builder"}
LabelInputs == {Undefined, "", "Compiling"}
Viewports == {<<392, 500>>}

\* Inputs of the grid specification: more ids, plain events, and viewports
\* of no size, one column and two columns.
GridIds == {"c1", "c2", "c3"}
GridViewports == {<<0, 0>>, <<232, 600>>, <<392, 500>>}

\* Inputs of the twin specification: two managers of one build, each with
\* its own spawn / remove / resize history.
TwinIds == {"c1", "c2"}
TwinViewports == {<<0, 0>>, <<232, 600>>}

(***************************************************************************)
(* Program constants.                                                      *)
(***************************************************************************)
HERO_MAX_ROWS == 3
HERO_ROW_COUNT == 3
padding == 36
cellWidth == 160
cellHeight == 120

CodexStates == {"idle", "working", "done"}

DEFAULT_STATUS(state) ==
  CASE state = "idle" -> "IDLE"
    [] state = "working" -> "WORKING"
    [] state = "done" -> "DONE"

\* Phaser: colour strings.
STATUS_COLORS(state) ==
  CASE state = "idle" -> "#9aa4b2"
    [] state = "working" -> "#f6c453"
    [] state = "done" -> "#8af28a"

\* Pixi: the same colours as numbers; STATUS_STYLE_BASE has its own fill.
Pixi_STATUS_COLORS(state) ==
  CASE state = "idle" -> "0x9aa4b2"
    [] state = "working" -> "0xf6c453"
    [] state = "done" -> "0x8af28a"

Pixi_STATUS_STYLE_BASE_fill == "0xaab4c4"

(***************************************************************************)
(* JavaScript helpers.                                                     *)
(***************************************************************************)
Max(a, b) == IF a >= b THEN a ELSE b
Min(a, b) == IF a <= b THEN a ELSE b

\* label ?? fallback
Coalesce(v, fallback) == IF v = Undefined THEN fallback ELSE v

\* Truthiness of an optional string: undefined and "" are falsy.
Truthy(v) == v # Undefined /\ v # ""

\* Map.set, Map.delete, Map.has
MapSet(m, k, v) == [x \in (DOMAIN m) \cup {k} |-> IF x = k THEN v ELSE m[x]]
MapDelete(m, k) == [x \in (DOMAIN m) \ {k} |-> m[x]]
Has(m, k) == k \in DOMAIN m
EmptyMap == [x \in {} |-> Undefined]

\* Mutant: swap-remove, the last entry moves into the hole.
FilterOut_SwapLast(s, id) ==
  LET n == Len(s)
      hole == IF \E i \in 1..n : s[i] = id
              THEN CHOOSE i \in 1..n : s[i] = id
              ELSE 0
  IN  IF hole = 0 THEN s
      ELSE [i \in 1..(n - 1) |-> IF i = hole THEN s[n] ELSE s[i]]

\* order.filter((entry) => entry !== id)
FilterOut(s, id) == SelectSeq(s, LAMBDA entry : entry # id)

\* The index (from 0) of id in the order list; Len(s) when it is absent.
RECURSIVE IndexOf(_, _)
IndexOf(s, id) ==
  IF s = <<>> THEN 0
  ELSE IF Head(s) = id THEN 0
  ELSE 1 + IndexOf(Tail(s), id)

\* Math.round(height * 0.72); height * 72 is never halfway between two
\* multiples of 100, so rounding half up is rounding to nearest.
RoundGroundY(height) == (height * 72 + 50) \div 100

(***************************************************************************)
(* Phaser variant: Agent.                                                  *)
(***************************************************************************)
\* resolveHeroLayout(scene).rows
heroLayout_rows == Max(1, HeroSheetRows)

\* createAnimations(): the rows that get hero-idle / hero-work / hero-done
\* animations.
createAnimations_rows == Min(heroLayout_rows, HERO_MAX_ROWS)

\* Mutant: done is final, a done agent takes no further state.
Phaser_Agent_setState_DoneIsFinal(agent, state, label) ==
  IF agent.state = "done" THEN agent
  ELSE
    [agent EXCEPT
       !.state = state,
       !.anim = (CASE state = "idle" -> "hero-idle-"
                   [] state = "working" -> "hero-work-"
                   [] state = "done" -> "hero-done-") \o ToString(agent.rowIndex),
       !.hammer = (state = "working"),
       !.doneIcon = (state = "done"),
       !.spark = (state = "working"),
       !.animTime = 0,
       !.status = Coalesce(label, DEFAULT_STATUS(state)),
       !.color = STATUS_COLORS(state)]

\* Agent.setState(state, label)
Phaser_Agent_setState(agent, state, label) ==
  [agent EXCEPT
     !.state = state,
     !.anim = (CASE state = "idle" -> "hero-idle-"
                 [] state = "working" -> "hero-work-"
                 [] state = "done" -> "hero-done-") \o ToString(agent.rowIndex),
     !.hammer = (state = "working"),
     !.doneIcon = (state = "done"),
     !.spark = (state = "working"),
     !.animTime = 0,
     !.status = Coalesce(label, DEFAULT_STATUS(state)),
     !.color = STATUS_COLORS(state)]

\* new Agent(scene, config): the fields as the constructor leaves them.
Phaser_Agent_new(name, rowIndex) ==
  Phaser_Agent_setState(
    [name |-> name, rowIndex |-> rowIndex, state |-> "idle",
     anim |-> "", hammer |-> TRUE, doneIcon |-> TRUE, spark |-> TRUE,
     status |-> DEFAULT_STATUS("idle"), color |-> "#aab4c4",
     x |-> 0, y |-> 0, time |-> 0, motion |-> "rest", animTime |-> 0],
    "idle", Undefined)

\* Mutant: a spawn of a known id that also starts the agent over.
Phaser_Agent_setName_Restart(agent, name) ==
  Phaser_Agent_setState([agent EXCEPT !.name = name], "idle", Undefined)

\* Agent.setName(name)
Phaser_Agent_setName(agent, name) == [agent EXCEPT !.name = name]

\* Agent.setPosition(x, y)
Phaser_Agent_setPosition(agent, x, y) == [agent EXCEPT !.x = x, !.y = y]

\* Mutant: a done agent goes back to idle on its own after some time.
Phaser_Agent_update_AutoIdle(agent, delta) ==
  LET timed == [agent EXCEPT
                  !.time = agent.time + delta,
                  !.motion = IF agent.state = "working" THEN "bob" ELSE "rest"]
  IN  IF timed.state = "done" /\ timed.time >= 2
      THEN Phaser_Agent_setState(timed, "idle", Undefined)
      ELSE timed

\* Agent.update(delta).  motion tells which values the tick wrote: "bob" is
\* sprite.y = -round(2 sin(0.01 time)) and spark alpha 0.6 + 0.4 sin(0.06
\* time), "rest" is sprite.y = 0 and spark alpha 1.
Phaser_Agent_update(agent, delta) ==
  [agent EXCEPT
     !.time = agent.time + delta,
     !.motion = IF agent.state = "working" THEN "bob" ELSE "rest"]

(***************************************************************************)
(* Phaser variant: AgentManager.                                           *)
(***************************************************************************)
\* new AgentManager(scene, config)
Phaser_AgentManager_new ==
  [agents |-> EmptyMap, stateById |-> EmptyMap, order |-> <<>>,
   layoutSize |-> [width |-> 0, height |-> 0]]

\* Mutant: the grid row is taken from the agent's animation row, which is
\* fixed at spawn, and not from its index in the order list.
Phaser_layout_ByRowIndex(m, width, height) ==
  LET sized == [m EXCEPT !.layoutSize = [width |-> width, height |-> height]]
      usableWidth == Max(1, width - padding * 2)
      columns == Max(1, usableWidth \div cellWidth)
      groundY == RoundGroundY(height)
      place(id) ==
        LET index == IndexOf(m.order, id)
            col == index % columns
            row == m.agents[id].rowIndex
        IN  Phaser_Agent_setPosition(m.agents[id],
              padding + col * cellWidth + cellWidth \div 2,
              groundY - row * cellHeight)
      inOrder == {m.order[i] : i \in 1..Len(m.order)}
  IN  IF width = 0 \/ height = 0 THEN sized
      ELSE [sized EXCEPT !.agents =
              [id \in DOMAIN m.agents |->
                 IF id \in inOrder THEN place(id) ELSE m.agents[id]]]

\* Mutant: the row is taken from the remainder, as the column is.
Phaser_layout_RowFromRemainder(m, width, height) ==
  LET sized == [m EXCEPT !.layoutSize = [width |-> width, height |-> height]]
      usableWidth == Max(1, width - padding * 2)
      columns == Max(1, usableWidth \div cellWidth)
      groundY == RoundGroundY(height)
      place(id) ==
        LET index == IndexOf(m.order, id)
            col == index % columns
            row == index % columns
        IN  Phaser_Agent_setPosition(m.agents[id],
              padding + col * cellWidth + cellWidth \div 2,
              groundY - row * cellHeight)
      inOrder == {m.order[i] : i \in 1..Len(m.order)}
  IN  IF width = 0 \/ height = 0 THEN sized
      ELSE [sized EXCEPT !.agents =
              [id \in DOMAIN m.agents |->
                 IF id \in inOrder THEN place(id) ELSE m.agents[id]]]

\* AgentManager.layout(width, height)
Phaser_layout(m, width, height) ==
  LET sized == [m EXCEPT !.layoutSize = [width |-> width, height |-> height]]
      usableWidth == Max(1, width - padding * 2)
      columns == Max(1, usableWidth \div cellWidth)
      groundY == RoundGroundY(height)
      place(id) ==
        LET index == IndexOf(m.order, id)
            col == index % columns
            row == index \div columns
        IN  Phaser_Agent_setPosition(m.agents[id],
              padding + col * cellWidth + cellWidth \div 2,
              groundY - row * cellHeight)
      inOrder == {m.order[i] : i \in 1..Len(m.order)}
  IN  IF width = 0 \/ height = 0 THEN sized
      ELSE [sized EXCEPT !.agents =
              [id \in DOMAIN m.agents |->
                 IF id \in inOrder THEN place(id) ELSE m.agents[id]]]

\* Mutant: the new id goes to the front of the order list.
Phaser_spawn_Unshift(m, id, nameArg) ==
  LET name == Coalesce(nameArg, "Codex Agent")
      availableRows == Max(1, Min(HERO_MAX_ROWS, heroLayout_rows))
      rowIndex == Len(m.order) % availableRows
      added == [m EXCEPT
                  !.agents = MapSet(m.agents, id, Phaser_Agent_new(name, rowIndex)),
                  !.stateById = MapSet(m.stateById, id, "idle"),
                  !.order = <<id>> \o m.order]
  IN  IF Has(m.agents, id)
      THEN [m EXCEPT !.agents[id] = Phaser_Agent_setName(m.agents[id], name)]
      ELSE Phaser_layout(added, m.layoutSize.width, m.layoutSize.height)

\* Mutant: every spawn, also of a registered id, records idle in the state map.
Phaser_spawn_RecordIdle(m, id, nameArg) ==
  LET name == Coalesce(nameArg, "Codex Agent")
      availableRows == Max(1, Min(HERO_MAX_ROWS, heroLayout_rows))
      rowIndex == Len(m.order) % availableRows
      recorded == [m EXCEPT !.stateById = MapSet(m.stateById, id, "idle")]
      added == [recorded EXCEPT
                  !.agents = MapSet(m.agents, id, Phaser_Agent_new(name, rowIndex)),
                  !.order = Append(m.order, id)]
  IN  IF Has(m.agents, id)
      THEN [recorded EXCEPT !.agents[id] = Phaser_Agent_setName(m.agents[id], name)]
      ELSE Phaser_layout(added, m.layoutSize.width, m.layoutSize.height)

\* AgentManager.spawn(id, name = 'Codex Agent')
Phaser_spawn(m, id, nameArg) ==
  LET name == Coalesce(nameArg, "Codex Agent")
      availableRows == Max(1, Min(HERO_MAX_ROWS, heroLayout_rows))
      rowIndex == Len(m.order) % availableRows
      added == [m EXCEPT
                  !.agents = MapSet(m.agents, id, Phaser_Agent_new(name, rowIndex)),
                  !.stateById = MapSet(m.stateById, id, "idle"),
                  !.order = Append(m.order, id)]
  IN  IF Has(m.agents, id)
      THEN [m EXCEPT !.agents[id] = Phaser_Agent_setName(m.agents[id], name)]
      ELSE Phaser_layout(added, m.layoutSize.width, m.layoutSize.height)

\* Mutant: the state map is written before the check for a registered id.
Phaser_setState_RecordFirst(m, id, state, label) ==
  LET recorded == [m EXCEPT !.stateById = MapSet(m.stateById, id, state)]
  IN  IF ~Has(m.agents, id) THEN recorded
      ELSE [recorded EXCEPT
              !.agents[id] = Phaser_Agent_setState(m.agents[id], state, label)]

\* Mutant: the agent changes state but the manager's state map is not told.
Phaser_setState_NoBookkeeping(m, id, state, label) ==
  IF ~Has(m.agents, id) THEN m
  ELSE [m EXCEPT
          !.agents[id] = Phaser_Agent_setState(m.agents[id], state, label)]

\* AgentManager.setState(id, state, label)
Phaser_setState(m, id, state, label) ==
  IF ~Has(m.agents, id) THEN m
  ELSE [m EXCEPT
          !.agents[id] = Phaser_Agent_setState(m.agents[id], state, label),
          !.stateById = MapSet(m.stateById, id, state)]

\* Mutant: no guard, and the entry is cut out with splice(indexOf(id), 1),
\* which cuts the last entry when the id is absent.
Phaser_remove_SpliceLast(m, id) ==
  LET cut == IF id \in {m.order[i] : i \in 1..Len(m.order)}
             THEN FilterOut(m.order, id)
             ELSE SubSeq(m.order, 1, Len(m.order) - 1)
      removed == [m EXCEPT
                    !.agents = MapDelete(m.agents, id),
                    !.stateById = MapDelete(m.stateById, id),
                    !.order = cut]
  IN  Phaser_layout(removed, m.layoutSize.width, m.layoutSize.height)

\* Mutant: remove takes the id off the grid and keeps the agent for later.
Phaser_remove_Hide(m, id) ==
  IF ~Has(m.agents, id) THEN m
  ELSE Phaser_layout([m EXCEPT !.order = FilterOut(m.order, id)],
                     m.layoutSize.width, m.layoutSize.height)

\* Mutant: remove leaves the entry of the state map behind.
Phaser_remove_KeepState(m, id) ==
  LET removed == [m EXCEPT
                    !.agents = MapDelete(m.agents, id),
                    !.order = FilterOut(m.order, id)]
  IN  IF ~Has(m.agents, id) THEN m
      ELSE Phaser_layout(removed, m.layoutSize.width, m.layoutSize.height)

\* Mutant: remove does not lay the grid out again.
Phaser_remove_NoLayout(m, id) ==
  IF ~Has(m.agents, id) THEN m
  ELSE [m EXCEPT
          !.agents = MapDelete(m.agents, id),
          !.stateById = MapDelete(m.stateById, id),
          !.order = FilterOut(m.order, id)]

\* AgentManager.remove(id)
Phaser_remove(m, id) ==
  LET removed == [m EXCEPT
                    !.agents = MapDelete(m.agents, id),
                    !.stateById = MapDelete(m.stateById, id),
                    !.order = FilterOut(m.order, id)]
  IN  IF ~Has(m.agents, id) THEN m
      ELSE Phaser_layout(removed, m.layoutSize.width, m.layoutSize.height)

\* Mutant: idle counted as "not working", so a done agent counts twice.
getSummary_IdleElse(m) ==
  LET count(state) ==
        Cardinality({id \in DOMAIN m.stateById : m.stateById[id] = state})
  IN  [total |-> Cardinality(DOMAIN m.stateById),
       working |-> count("working"),
       idle |-> Cardinality(DOMAIN m.stateById) - count("working"),
       done |-> count("done")]

\* AgentManager.getSummary()
getSummary(m) ==
  LET count(state) ==
        Cardinality({id \in DOMAIN m.stateById : m.stateById[id] = state})
  IN  [total |-> Cardinality(DOMAIN m.stateById),
       working |-> count("working"),
       idle |-> count("idle"),
       done |-> count("done")]

\* The playback that sprite.play(key) starts: the engine moves the running
\* animation on by delta every frame; animTime is the time played since
\* the animation was started.
Phaser_Sprite_advance(agent, delta) ==
  [agent EXCEPT !.animTime = agent.animTime + delta]

\* AgentManager.update(delta)
Phaser_update(m, delta) ==
  [m EXCEPT !.agents =
     [id \in DOMAIN m.agents |-> Phaser_Agent_update(m.agents[id], delta)]]

(***************************************************************************)
(* Pixi variant: Agent.                                                    *)
(***************************************************************************)
\* buildHeroFrames(sheet).length
heroFrames_length == Min(HERO_ROW_COUNT, Max(1, HeroSheetRows))

\* new Agent(id, name, assets, rowIndex): the constructor does not call
\* setState; the status text keeps the base style.
Pixi_Agent_new(name, rowIndex) ==
  [name |-> name, rowIndex |-> rowIndex, state |-> "idle",
   textures |-> "idle", emoteTexture |-> "hammer", emoteVisible |-> FALSE,
   status |-> DEFAULT_STATUS("idle"), fill |-> Pixi_STATUS_STYLE_BASE_fill,
   x |-> 0, y |-> 0, time |-> 0, motion |-> "rest", emoteScale |-> "0.2",
   animTime |-> 0]

\* Agent.setName(name)
Pixi_Agent_setName(agent, name) == [agent EXCEPT !.name = name]

\* Agent.setPosition(x, y)
Pixi_Agent_setPosition(agent, x, y) == [agent EXCEPT !.x = x, !.y = y]

\* Agent.setState(state, label)
Pixi_Agent_setState(agent, state, label) ==
  IF agent.state = state /\ ~Truthy(label) THEN agent
  ELSE [agent EXCEPT
          !.state = state,
          !.textures = (CASE state = "idle" -> "idle"
                          [] state = "working" -> "work"
                          [] state = "done" -> "done"),
          !.emoteTexture = (CASE state = "idle" -> agent.emoteTexture
                              [] state = "working" -> "hammer"
                              [] state = "done" -> "done"),
          !.animTime = 0,
          !.emoteVisible = (state # "idle"),
          !.emoteScale = (CASE state = "idle" -> agent.emoteScale
                            [] state = "working" -> "0.2"
                            [] state = "done" -> "2.4"),
          !.status = Coalesce(label, DEFAULT_STATUS(state)),
          !.fill = Pixi_STATUS_COLORS(state)]

\* Agent.update(delta).  motion "bob" is sprite.y = -2 sin(0.25 time) and
\* emote rotation 0.35 sin(0.3 time), "rest" is both 0; a done agent's emote
\* scale is 2.4 (1 + 0.08 sin(0.15 time)).
Pixi_Agent_update(agent, delta) ==
  [agent EXCEPT
     !.time = agent.time + delta,
     !.motion = IF agent.state = "working" THEN "bob" ELSE "rest",
     !.emoteScale = IF agent.state = "done" THEN "2.4 * pulse"
                    ELSE agent.emoteScale]

(***************************************************************************)
(* Pixi variant: AgentManager.                                             *)
(***************************************************************************)
\* new AgentManager(root, assets)
Pixi_AgentManager_new ==
  [agents |-> EmptyMap, order |-> <<>>,
   layoutSize |-> [width |-> 0, height |-> 0]]

\* Mutant: the rows are stacked downward from the ground line.
Pixi_layout_Downward(m, width, height) ==
  LET sized == [m EXCEPT !.layoutSize = [width |-> width, height |-> height]]
      usableWidth == Max(1, width - padding * 2)
      columns == Max(1, usableWidth \div cellWidth)
      groundY == RoundGroundY(height)
      place(id) ==
        LET index == IndexOf(m.order, id)
            col == index % columns
            row == index \div columns
        IN  Pixi_Agent_setPosition(m.agents[id],
              padding + col * cellWidth + cellWidth \div 2,
              groundY + row * cellHeight)
      inOrder == {m.order[i] : i \in 1..Len(m.order)}
  IN  IF width = 0 \/ height = 0 THEN sized
      ELSE [sized EXCEPT !.agents =
              [id \in DOMAIN m.agents |->
                 IF id \in inOrder THEN place(id) ELSE m.agents[id]]]

\* AgentManager.layout(width, height)
Pixi_layout(m, width, height) ==
  LET sized == [m EXCEPT !.layoutSize = [width |-> width, height |-> height]]
      usableWidth == Max(1, width - padding * 2)
      columns == Max(1, usableWidth \div cellWidth)
      groundY == RoundGroundY(height)
      place(id) ==
        LET index == IndexOf(m.order, id)
            col == index % columns
            row == index \div columns
        IN  Pixi_Agent_setPosition(m.agents[id],
              padding + col * cellWidth + cellWidth \div 2,
              groundY - row * cellHeight)
      inOrder == {m.order[i] : i \in 1..Len(m.order)}
  IN  IF width = 0 \/ height = 0 THEN sized
      ELSE [sized EXCEPT !.agents =
              [id \in DOMAIN m.agents |->
                 IF id \in inOrder THEN place(id) ELSE m.agents[id]]]

\* Mutant: no check for a registered id, every spawn builds a new agent and
\* appends the id.
Pixi_spawn_Unguarded(m, id, nameArg) ==
  LET name == Coalesce(nameArg, "Codex Agent")
      availableRows == Max(1, heroFrames_length)
      rowIndex == Len(m.order) % availableRows
      added == [m EXCEPT
                  !.agents = MapSet(m.agents, id, Pixi_Agent_new(name, rowIndex)),
                  !.order = Append(m.order, id)]
  IN  Pixi_layout(added, m.layoutSize.width, m.layoutSize.height)

\* Mutant: the new id is put into the order slot that the remove right
\* before it vacated, and appended only when there is no such slot.
Pixi_spawn_Refill(m, id, nameArg) ==
  LET name == Coalesce(nameArg, "Codex Agent")
      availableRows == Max(1, heroFrames_length)
      rowIndex == Len(m.order) % availableRows
      slot == IF last.op = "emit" /\ last.event.type = "remove" /\ last.freed >= 0
              THEN Min(last.freed, Len(m.order))
              ELSE Len(m.order)
      added == [m EXCEPT
                  !.agents = MapSet(m.agents, id, Pixi_Agent_new(name, rowIndex)),
                  !.order = SubSeq(m.order, 1, slot) \o <<id>>
                              \o SubSeq(m.order, slot + 1, Len(m.order))]
  IN  IF Has(m.agents, id)
      THEN [m EXCEPT !.agents[id] = Pixi_Agent_setName(m.agents[id], name)]
      ELSE Pixi_layout(added, m.layoutSize.width, m.layoutSize.height)

\* Mutant: the spawn of a registered id builds the agent anew, unplaced.
Pixi_spawn_Recreate(m, id, nameArg) ==
  LET name == Coalesce(nameArg, "Codex Agent")
      availableRows == Max(1, heroFrames_length)
      rowIndex == Len(m.order) % availableRows
      added == [m EXCEPT
                  !.agents = MapSet(m.agents, id, Pixi_Agent_new(name, rowIndex)),
                  !.order = Append(m.order, id)]
  IN  IF Has(m.agents, id)
      THEN [m EXCEPT !.agents[id] = Pixi_Agent_new(name, m.agents[id].rowIndex)]
      ELSE Pixi_layout(added, m.layoutSize.width, m.layoutSize.height)

\* AgentManager.spawn(id, name = 'Codex Agent')
Pixi_spawn(m, id, nameArg) ==
  LET name == Coalesce(nameArg, "Codex Agent")
      availableRows == Max(1, heroFrames_length)
      rowIndex == Len(m.order) % availableRows
      added == [m EXCEPT
                  !.agents = MapSet(m.agents, id, Pixi_Agent_new(name, rowIndex)),
                  !.order = Append(m.order, id)]
  IN  IF Has(m.agents, id)
      THEN [m EXCEPT !.agents[id] = Pixi_Agent_setName(m.agents[id], name)]
      ELSE Pixi_layout(added, m.layoutSize.width, m.layoutSize.height)

\* Mutant: a state event for an unknown id registers the agent first.
Pixi_setState_AutoSpawn(m, id, state, label) ==
  LET known == IF Has(m.agents, id) THEN m ELSE Pixi_spawn(m, id, Undefined)
  IN  [known EXCEPT
         !.agents[id] = Pixi_Agent_setState(known.agents[id], state, label)]

\* AgentManager.setState(id, state, label)
Pixi_setState(m, id, state, label) ==
  IF ~Has(m.agents, id) THEN m
  ELSE [m EXCEPT !.agents[id] = Pixi_Agent_setState(m.agents[id], state, label)]

\* Mutant: after a remove every remaining agent takes the animation row of
\* its new index in the order list.
Pixi_remove_Rerow(m, id) ==
  LET order == FilterOut(m.order, id)
      availableRows == Max(1, heroFrames_length)
      removed == [m EXCEPT
                    !.agents = [o \in (DOMAIN m.agents) \ {id} |->
                                  [m.agents[o] EXCEPT
                                     !.rowIndex = IndexOf(order, o) % availableRows]],
                    !.order = order]
  IN  IF ~Has(m.agents, id) THEN m
      ELSE Pixi_layout(removed, m.layoutSize.width, m.layoutSize.height)

\* Mutant: remove takes the agent out and leaves the others where they are.
Pixi_remove_NoLayout(m, id) ==
  IF ~Has(m.agents, id) THEN m
  ELSE [m EXCEPT
          !.agents = MapDelete(m.agents, id),
          !.order = FilterOut(m.order, id)]

\* AgentManager.remove(id)
Pixi_remove(m, id) ==
  LET removed == [m EXCEPT
                    !.agents = MapDelete(m.agents, id),
                    !.order = FilterOut(m.order, id)]
  IN  IF ~Has(m.agents, id) THEN m
      ELSE Pixi_layout(removed, m.layoutSize.width, m.layoutSize.height)

\* The playback that sprite.play() starts: the engine moves the running
\* animation on by delta every frame; the done frames are shown with
\* gotoAndStop(0) and do not run.
Pixi_Sprite_advance(agent, delta) ==
  IF agent.textures = "done" THEN agent
  ELSE [agent EXCEPT !.animTime = agent.animTime + delta]

\* AgentManager.update(delta)
Pixi_update(m, delta) ==
  [m EXCEPT !.agents =
     [id \in DOMAIN m.agents |-> Pixi_Agent_update(m.agents[id], delta)]]

(***************************************************************************)
(* Events and their application (CodexScene.emit, CodexVisualizer.emit).   *)
(***************************************************************************)
Events(ids, names, labels) ==
  [type : {"spawn"}, id : ids, name : names]
    \cup [type : {"work", "idle", "done"}, id : ids, label : labels]
    \cup [type : {"remove"}, id : ids]

CodexEvent == Events(Ids, NameInputs, LabelInputs)
GridEvent ==
  {e \in Events(GridIds, {Undefined}, {Undefined}) :
     e.type \in {"spawn", "work", "remove"}}
TwinEvent ==
  {e \in Events(TwinIds, {Undefined}, {Undefined}) :
     e.type \in {"spawn", "remove"}}

\* The CodexState that a work / idle / done event asks for.
TargetState(type) ==
  CASE type = "work" -> "working"
    [] type = "idle" -> "idle"
    [] type = "done" -> "done"

\* event.type.toUpperCase()
toUpperCase(type) ==
  CASE type = "work" -> "WORK"
    [] type = "idle" -> "IDLE"
    [] type = "done" -> "DONE"
    [] type = "spawn" -> "SPAWN"
    [] type = "remove" -> "REMOVE"
    [] type = "bogus" -> "BOGUS"

\* formatEvent(event)
formatEvent(event) ==
  IF event.type = "spawn" THEN "Spawned " \o Coalesce(event.name, event.id)
  ELSE IF event.type = "remove" THEN "Removed " \o event.id
  ELSE event.id \o " " \o toUpperCase(event.type)
         \o (IF Truthy(event.label) THEN " - " \o event.label ELSE "")

\* One turn of the switch in CodexScene.emit.
Phaser_applyEvent(m, payload) ==
  CASE payload.type = "spawn" -> Phaser_spawn(m, payload.id, payload.name)
    [] payload.type \in {"work", "idle", "done"} ->
         Phaser_setState(m, payload.id, TargetState(payload.type), payload.label)
    [] payload.type = "remove" -> Phaser_remove(m, payload.id)
    [] OTHER -> m

\* Array.isArray(event) ? event : [event].  A payload is an array of events
\* or one event.
toEventArray(payload) ==
  IF payload.isArray THEN payload.items ELSE <<payload.item>>

\* Mutant: the loop runs over the batch from its end.
RECURSIVE Phaser_applyAll_Reversed(_, _)
Phaser_applyAll_Reversed(m, events) ==
  IF events = <<>> THEN m
  ELSE Phaser_applyEvent(Phaser_applyAll_Reversed(m, Tail(events)), Head(events))

\* The loop of CodexScene.emit over the events of a batch, in array order.
RECURSIVE Phaser_applyAll(_, _)
Phaser_applyAll(m, events) ==
  IF events = <<>> THEN m
  ELSE Phaser_applyAll(Phaser_applyEvent(m, Head(events)), Tail(events))

\* Mutant: the HUD shows the first event of the batch.
Phaser_emitHud_FirstEvent(h, events) ==
  IF events = <<>> THEN h
  ELSE [h EXCEPT !.lastEvent = formatEvent(events[1])]

\* GameHud.setLastEvent(formatEvent(lastEvent)), when the batch had an event.
Phaser_emitHud(h, events) ==
  IF events = <<>> THEN h
  ELSE [h EXCEPT !.lastEvent = formatEvent(events[Len(events)])]

\* One turn of the switch in CodexVisualizer.emit.
Pixi_applyEvent(m, payload) ==
  CASE payload.type = "spawn" -> Pixi_spawn(m, payload.id, payload.name)
    [] payload.type \in {"work", "idle", "done"} ->
         Pixi_setState(m, payload.id, TargetState(payload.type), payload.label)
    [] payload.type = "remove" -> Pixi_remove(m, payload.id)
    [] OTHER -> m

\* The loop of CodexVisualizer.emit.
RECURSIVE Pixi_applyAll(_, _)
Pixi_applyAll(m, events) ==
  IF events = <<>> THEN m
  ELSE Pixi_applyAll(Pixi_applyEvent(m, Head(events)), Tail(events))

\* The three lines of the HUD's stats text.
statsText(summary) ==
  <<"Agents: " \o ToString(summary.total),
    "Working: " \o ToString(summary.working)
       \o "   Idle: " \o ToString(summary.idle),
    "Done: " \o ToString(summary.done)>>

\* GameHud.setSummary(summary)
GameHud_setSummary(h, summary) ==
  [h EXCEPT !.summary = summary, !.stats = statsText(summary)]

\* Mutant: two summaries are taken for equal when their totals are.
summariesEqual_TotalOnly(a, b) ==
  /\ b # {}
  /\ \A s \in b : a.total = s.total

\* summariesEqual(a, b), b being the set that holds the last summary if any.
summariesEqual(a, b) ==
  /\ b # {}
  /\ \A s \in b :
       /\ a.total = s.total /\ a.working = s.working
       /\ a.idle = s.idle /\ a.done = s.done

\* new GameHud(scene)
GameHud_new ==
  LET summary == [total |-> 0, working |-> 0, idle |-> 0, done |-> 0]
  IN  [lastEvent |-> "Awaiting tasks...", summary |-> summary,
       stats |-> statsText(summary)]

(***************************************************************************)
(* The state machine.  A run is one build of the visualizer: the Phaser    *)
(* scene or the Pixi visualizer.  The other build's registry stays as      *)
(* constructed.                                                            *)
(***************************************************************************)
\* The value of the history's freed field when no slot was just vacated.
NoSlot == 0 - 1

Created == [op |-> "create", known |-> FALSE, repeated |-> FALSE, freed |-> NoSlot]
Resized == [op |-> "resize", known |-> FALSE, repeated |-> FALSE, freed |-> NoSlot]

\* The mock generator before startMock is called: no counter, no set of
\* active ids, no timer.
MockOff ==
  [started |-> FALSE, counter |-> 0, active |-> {}, timers |-> <<>>]

\* new AgentManager(...) followed by layout(width, height), as done by
\* CodexScene.create() and by new CodexVisualizer(app, assets).
Construct(build, v) ==
  IF build = "phaser"
  THEN Phaser_layout(Phaser_AgentManager_new, v[1], v[2])
  ELSE Pixi_layout(Pixi_AgentManager_new, v[1], v[2])

InitWith(viewports, twinViewports) ==
  \E v \in viewports, w \in twinViewports, build \in {"phaser", "pixi"} :
    /\ variant = build
    /\ phaser = IF build = "phaser" THEN Construct(build, v)
                ELSE Phaser_AgentManager_new
    /\ pixi = IF build = "pixi" THEN Construct(build, v)
              ELSE Pixi_AgentManager_new
    /\ twin = Construct(build, w)
    /\ hud = GameHud_new
    /\ lastSummary = {}
    /\ mock = MockOff
    /\ last = Created

\* The registry of the running build.
Registry == IF variant = "phaser" THEN phaser ELSE pixi

\* The history of a step that applied one event: whether its id was
\* registered before, whether it is a spawn applied twice in a row, and the
\* order index that a remove vacates: recorded by the remove of a registered
\* id and kept by the spawn of a new id that follows it directly; and
\* whether a state event found its agent done.
Applied(event) ==
  [op |-> "emit", event |-> event,
   known |-> Has(Registry.agents, event.id),
   wasDone |-> /\ event.type \in {"work", "idle", "done"}
               /\ Has(Registry.agents, event.id)
               /\ Registry.agents[event.id].state = "done",
   repeated |-> (event.type = "spawn" /\ last.op = "emit" /\ last.event = event),
   freed |-> IF event.type = "remove" /\ Has(Registry.agents, event.id)
               THEN IndexOf(Registry.order, event.id)
             ELSE IF /\ event.type = "spawn" /\ ~Has(Registry.agents, event.id)
                     /\ last.op = "emit" /\ last.event.type = "remove"
               THEN last.freed
             ELSE NoSlot]

\* The model registers at most MaxAgents agents at once.
WithinBound(m, event) ==
  \/ event.type # "spawn"
  \/ Has(m.agents, event.id)
  \/ Cardinality(DOMAIN m.agents) < MaxAgents

\* CodexScene.emit(event), one event.
PhaserEmit(event) ==
  /\ variant = "phaser"
  /\ WithinBound(phaser, event)
  /\ phaser' = Phaser_applyAll(phaser, <<event>>)
  /\ hud' = Phaser_emitHud(hud, <<event>>)
  /\ last' = Applied(event)
  /\ UNCHANGED <<mock, variant, lastSummary, pixi, twin>>

\* CodexVisualizer.emit(event), one event.
PixiEmit(event) ==
  /\ variant = "pixi"
  /\ WithinBound(pixi, event)
  /\ pixi' = Pixi_applyAll(pixi, <<event>>)
  /\ last' = Applied(event)
  /\ UNCHANGED <<mock, variant, lastSummary, phaser, hud, twin>>

\* CodexScene.resize(width, height)
PhaserResize(width, height) ==
  /\ variant = "phaser"
  /\ phaser' = Phaser_layout(phaser, width, height)
  /\ last' = Resized
  /\ UNCHANGED <<mock, variant, lastSummary, pixi, hud, twin>>

\* CodexVisualizer.resize(width, height)
PixiResize(width, height) ==
  /\ variant = "pixi"
  /\ pixi' = Pixi_layout(pixi, width, height)
  /\ last' = Resized
  /\ UNCHANGED <<mock, variant, lastSummary, phaser, hud, twin>>

\* The history of a frame tick.
Ticked == [op |-> "tick", known |-> FALSE, repeated |-> FALSE, freed |-> NoSlot]

\* The model stops the animation clocks at MaxTime.
ClockWithinBound(m, delta) ==
  \A id \in DOMAIN m.agents : m.agents[id].time + delta <= MaxTime

\* One frame of the Phaser scene: the engine moves the sprites' animations
\* on, then CodexScene.update(time, delta) runs the agents' tick and hands
\* the summary to the HUD when it differs from the one handed last.
PhaserTick(delta) ==
  /\ variant = "phaser"
  /\ ClockWithinBound(phaser, delta)
  /\ phaser' = Phaser_update(
                 [phaser EXCEPT !.agents =
                    [id \in DOMAIN phaser.agents |->
                       Phaser_Sprite_advance(phaser.agents[id], delta)]],
                 delta)
  /\ LET summary == getSummary(phaser')
     IN  IF ~summariesEqual(summary, lastSummary)
         THEN /\ hud' = GameHud_setSummary(hud, summary)
              /\ lastSummary' = {summary}
         ELSE UNCHANGED <<hud, lastSummary>>
  /\ last' = Ticked
  /\ UNCHANGED <<mock, variant, pixi, twin>>

\* One frame of the Pixi visualizer: the engine moves the sprites'
\* animations on, then the ticker callback runs agentManager.update(delta).
PixiTick(delta) ==
  /\ variant = "pixi"
  /\ ClockWithinBound(pixi, delta)
  /\ pixi' = Pixi_update(
               [pixi EXCEPT !.agents =
                  [id \in DOMAIN pixi.agents |->
                     Pixi_Sprite_advance(pixi.agents[id], delta)]],
               delta)
  /\ last' = Ticked
  /\ UNCHANGED <<mock, variant, lastSummary, phaser, hud, twin>>

\* An event delivered to the second manager.
TwinEmit(event) ==
  /\ WithinBound(twin, event)
  /\ twin' = IF variant = "phaser"
             THEN Phaser_applyAll(twin, <<event>>)
             ELSE Pixi_applyAll(twin, <<event>>)
  /\ UNCHANGED <<mock, variant, lastSummary, phaser, pixi, hud, last>>

\* A resize delivered to the second manager.
TwinResize(width, height) ==
  /\ twin' = IF variant = "phaser"
             THEN Phaser_layout(twin, width, height)
             ELSE Pixi_layout(twin, width, height)
  /\ UNCHANGED <<mock, variant, lastSummary, phaser, pixi, hud, last>>

(***************************************************************************)
(* Spec: the agent state machine in detail, two ids, every name and label. *)
(***************************************************************************)
Init == InitWith(Viewports, {<<0, 0>>})

PhaserEmitAny == \E event \in CodexEvent : PhaserEmit(event)
PixiEmitAny == \E event \in CodexEvent : PixiEmit(event)

Next == PhaserEmitAny \/ PixiEmitAny

Spec == Init /\ [][Next]_vars

(***************************************************************************)
(* GridSpec: the order list and the layout, three ids, resizes.            *)
(***************************************************************************)
GridInit == InitWith(GridViewports, {<<0, 0>>})

GridPhaserEmit == \E event \in GridEvent : PhaserEmit(event)
GridPixiEmit == \E event \in GridEvent : PixiEmit(event)
GridPhaserResize == \E v \in GridViewports : PhaserResize(v[1], v[2])
GridPixiResize == \E v \in GridViewports : PixiResize(v[1], v[2])

GridNext == GridPhaserEmit \/ GridPixiEmit \/ GridPhaserResize \/ GridPixiResize

GridSpec == GridInit /\ [][GridNext]_vars

(***************************************************************************)
(* TwinSpec: two managers of the same build with independent histories.    *)
(***************************************************************************)
TwinInit == InitWith(TwinViewports, TwinViewports)

TwinPhaserEmit == \E event \in TwinEvent : PhaserEmit(event)
TwinPixiEmit == \E event \in TwinEvent : PixiEmit(event)
TwinPhaserResize == \E v \in TwinViewports : PhaserResize(v[1], v[2])
TwinPixiResize == \E v \in TwinViewports : PixiResize(v[1], v[2])
TwinEmitAny == \E event \in TwinEvent : TwinEmit(event)
TwinResizeAny == \E v \in TwinViewports : TwinResize(v[1], v[2])

TwinNext ==
  \/ TwinPhaserEmit \/ TwinPixiEmit \/ TwinPhaserResize \/ TwinPixiResize
  \/ TwinEmitAny \/ TwinResizeAny

TwinSpec == TwinInit /\ [][TwinNext]_vars

(***************************************************************************)
(* SmallSpec: viewports narrower than one cell or lower than three rows.   *)
(***************************************************************************)
SmallViewports == {<<100, 300>>, <<232, 200>>}
SmallEvent ==
  {e \in Events(GridIds, {Undefined}, {Undefined}) :
     e.type \in {"spawn", "remove"}}

SmallInit == InitWith(SmallViewports, {<<0, 0>>})

SmallPhaserEmit == \E event \in SmallEvent : PhaserEmit(event)
SmallPixiEmit == \E event \in SmallEvent : PixiEmit(event)
SmallPhaserResize == \E v \in SmallViewports : PhaserResize(v[1], v[2])
SmallPixiResize == \E v \in SmallViewports : PixiResize(v[1], v[2])

SmallNext ==
  SmallPhaserEmit \/ SmallPixiEmit \/ SmallPhaserResize \/ SmallPixiResize

SmallSpec == SmallInit /\ [][SmallNext]_vars

(***************************************************************************)
(* BatchSpec: emit called with arrays of events and with single events.    *)
(***************************************************************************)
\* The events of the batches: two ids, a name, a label, every event type.
BatchEvent ==
  {[type |-> "spawn", id |-> "c1", name |-> Undefined],
   [type |-> "spawn", id |-> "c2", name |-> "Builder"],
   [type |-> "work", id |-> "c1", label |-> "Compiling"],
   [type |-> "idle", id |-> "c1", label |-> Undefined],
   [type |-> "done", id |-> "c2", label |-> Undefined],
   [type |-> "remove", id |-> "c1"]}

\* What emit is called with: an array of up to MaxBatch events, or one event.
Payloads ==
  {[isArray |-> TRUE, items |-> items] :
     items \in UNION {[1..n -> BatchEvent] : n \in 0..MaxBatch}}
    \cup {[isArray |-> FALSE, item |-> event] : event \in BatchEvent}

\* The loop of emit of the running build.
ApplyAll(m, events) ==
  IF variant = "phaser" THEN Phaser_applyAll(m, events) ELSE Pixi_applyAll(m, events)

\* The history of a step that called emit with a payload; known tells
\* whether the id of the last event was registered when its turn came.
Batched(payload) ==
  LET events == toEventArray(payload)
      n == Len(events)
  IN  [op |-> "batch", payload |-> payload,
       known |-> (n > 0 /\ Has(ApplyAll(Registry, SubSeq(events, 1, n - 1)).agents,
                               events[n].id)),
       repeated |-> FALSE, freed |-> NoSlot]

\* CodexScene.emit(payload)
PhaserEmitBatch(payload) ==
  /\ variant = "phaser"
  /\ phaser' = Phaser_applyAll(phaser, toEventArray(payload))
  /\ hud' = Phaser_emitHud(hud, toEventArray(payload))
  /\ last' = Batched(payload)
  /\ UNCHANGED <<mock, variant, lastSummary, pixi, twin>>

\* CodexVisualizer.emit(payload)
PixiEmitBatch(payload) ==
  /\ variant = "pixi"
  /\ pixi' = Pixi_applyAll(pixi, toEventArray(payload))
  /\ last' = Batched(payload)
  /\ UNCHANGED <<mock, variant, lastSummary, phaser, hud, twin>>

BatchPhaserEmit == \E payload \in Payloads : PhaserEmitBatch(payload)
BatchPixiEmit == \E payload \in Payloads : PixiEmitBatch(payload)

BatchNext == BatchPhaserEmit \/ BatchPixiEmit

BatchSpec == Init /\ [][BatchNext]_vars

(***************************************************************************)
(* TickSpec: events, resizes and frame ticks.                              *)
(***************************************************************************)
TickViewports == {<<232, 600>>, <<392, 500>>}
TickEvent ==
  {e \in Events(Ids, {Undefined}, {Undefined}) : e.type # "idle"}
Deltas == {1}

TickInit == InitWith(TickViewports, {<<0, 0>>})

TickPhaserEmit == \E event \in TickEvent : PhaserEmit(event)
TickPixiEmit == \E event \in TickEvent : PixiEmit(event)
TickPhaserResize == \E v \in TickViewports : PhaserResize(v[1], v[2])
TickPixiResize == \E v \in TickViewports : PixiResize(v[1], v[2])
TickPhaser == \E delta \in Deltas : PhaserTick(delta)
TickPixi == \E delta \in Deltas : PixiTick(delta)

TickNext ==
  \/ TickPhaserEmit \/ TickPixiEmit \/ TickPhaserResize \/ TickPixiResize
  \/ TickPhaser \/ TickPixi

TickSpec == TickInit /\ [][TickNext]_vars

(***************************************************************************)
(* WsSpec: the WebSocket bridge of main.ts feeding the Phaser scene.       *)
(***************************************************************************)
\* JSON null.
JsonNull == [isNull |-> TRUE]
IsNull(value) == "isNull" \in DOMAIN value

\* value[field] of a JSON object: undefined when the object lacks the field.
Get(value, field) ==
  IF field \in DOMAIN value THEN value[field] ELSE Undefined

\* The texts that arrive as event.data.
Messages ==
  {"{\"type\":\"spawn\",\"id\":\"c1\"}",
   "{\"type\":\"spawn\",\"id\":\"c2\",\"name\":\"Builder\"}",
   "{\"type\":\"work\",\"id\":\"c1\",\"label\":\"Compiling\"}",
   "{\"type\":\"done\",\"id\":\"c2\"}",
   "{\"type\":\"remove\",\"id\":\"c1\"}",
   "[{\"type\":\"spawn\",\"id\":\"c1\"},{\"type\":\"work\",\"id\":\"c1\"}]",
   "[{\"type\":\"remove\",\"id\":\"c2\"},null]",
   "{\"type\":\"bogus\",\"id\":\"c1\"}",
   "{\"type\":\"spawn\"}",
   "{\"id\":\"c1\"}",
   "null",
   "{\"type\":\"spawn\",",
   "[]"}

\* JSON.parse(text): the value, or a SyntaxError.
JSON_parse(text) ==
  LET value(v) == [ok |-> TRUE, value |-> v]
      object(v) == value([isArray |-> FALSE, item |-> v])
      array(items) == value([isArray |-> TRUE, items |-> items])
  IN  CASE text = "{\"type\":\"spawn\",\"id\":\"c1\"}" ->
             object([type |-> "spawn", id |-> "c1"])
        [] text = "{\"type\":\"spawn\",\"id\":\"c2\",\"name\":\"Builder\"}" ->
             object([type |-> "spawn", id |-> "c2", name |-> "Builder"])
        [] text = "{\"type\":\"work\",\"id\":\"c1\",\"label\":\"Compiling\"}" ->
             object([type |-> "work", id |-> "c1", label |-> "Compiling"])
        [] text = "{\"type\":\"done\",\"id\":\"c2\"}" ->
             object([type |-> "done", id |-> "c2"])
        [] text = "{\"type\":\"remove\",\"id\":\"c1\"}" ->
             object([type |-> "remove", id |-> "c1"])
        [] text = "[{\"type\":\"spawn\",\"id\":\"c1\"},{\"type\":\"work\",\"id\":\"c1\"}]" ->
             array(<<[type |-> "spawn", id |-> "c1"], [type |-> "work", id |-> "c1"]>>)
        [] text = "[{\"type\":\"remove\",\"id\":\"c2\"},null]" ->
             array(<<[type |-> "remove", id |-> "c2"], JsonNull>>)
        [] text = "{\"type\":\"bogus\",\"id\":\"c1\"}" ->
             object([type |-> "bogus", id |-> "c1"])
        [] text = "{\"type\":\"spawn\"}" -> object([type |-> "spawn"])
        [] text = "{\"id\":\"c1\"}" -> object([id |-> "c1"])
        [] text = "null" -> object(JsonNull)
        [] text = "[]" -> array(<<>>)
        [] OTHER -> [ok |-> FALSE]

\* The fields that emit reads of a payload; a field the object lacks reads
\* as undefined.
ReadEvent(value) ==
  [type |-> Get(value, "type"), id |-> Get(value, "id"),
   name |-> Get(value, "name"), label |-> Get(value, "label")]

\* The loop of CodexScene.emit over parsed values: payload.type of null
\* throws a TypeError, which ends the loop with the events before it applied.
RECURSIVE Phaser_emitLoop(_, _)
Phaser_emitLoop(m, events) ==
  IF events = <<>> THEN [m |-> m, threw |-> FALSE]
  ELSE IF IsNull(Head(events)) THEN [m |-> m, threw |-> TRUE]
  ELSE Phaser_emitLoop(Phaser_applyEvent(m, ReadEvent(Head(events))), Tail(events))

\* formatEvent(event) throws when event.type.toUpperCase() is called on a
\* type that is undefined.
formatEventThrows(value) ==
  /\ Get(value, "type") \notin {"spawn", "remove"}
  /\ Get(value, "type") = Undefined

\* CodexScene.emit(payload) for a parsed value: the manager and the HUD it
\* leaves, and whether it threw.
Phaser_emitParsed(m, h, payload) ==
  LET events == toEventArray(payload)
      looped == Phaser_emitLoop(m, events)
      lastEvent == events[Len(events)]
  IN  IF looped.threw THEN [m |-> looped.m, h |-> h, threw |-> TRUE]
      ELSE IF events = <<>> THEN [m |-> looped.m, h |-> h, threw |-> FALSE]
      ELSE IF formatEventThrows(lastEvent)
        THEN [m |-> looped.m, h |-> h, threw |-> TRUE]
      ELSE [m |-> looped.m,
            h |-> [h EXCEPT !.lastEvent = formatEvent(ReadEvent(lastEvent))],
            threw |-> FALSE]

\* A value is a CodexEvent: an object with one of the five types and an id.
IsCodexEvent(value) ==
  /\ ~IsNull(value)
  /\ Get(value, "type") \in {"spawn", "work", "idle", "done", "remove"}
  /\ Get(value, "id") # Undefined

\* A parsed payload is a CodexEvent or an array of them.
IsValidPayload(payload) ==
  \A i \in 1..Len(toEventArray(payload)) : IsCodexEvent(toEventArray(payload)[i])

\* The 'message' listener of connectWebSocket: JSON.parse, then
\* target.emit(payload), both inside one try; the catch only warns.
WsMessage(text) ==
  LET parsed == JSON_parse(text)
      result == Phaser_emitParsed(phaser, hud, parsed.value)
  IN  /\ variant = "phaser"
      /\ IF parsed.ok
         THEN /\ phaser' = result.m
              /\ hud' = result.h
              /\ last' = [op |-> "message", text |-> text, passed |-> TRUE,
                          valid |-> IsValidPayload(parsed.value),
                          warned |-> result.threw,
                          known |-> FALSE, repeated |-> FALSE, freed |-> NoSlot]
         ELSE /\ UNCHANGED <<phaser, hud>>
              /\ last' = [op |-> "message", text |-> text, passed |-> FALSE,
                          valid |-> FALSE, warned |-> TRUE,
                          known |-> FALSE, repeated |-> FALSE, freed |-> NoSlot]
      /\ UNCHANGED <<mock, variant, lastSummary, pixi, twin>>

WsInit == Init /\ variant = "phaser"

WsNext == \E text \in Messages : WsMessage(text)

WsSpec == WsInit /\ [][WsNext]_vars

(***************************************************************************)
(* AnimSpec: one agent, every label, and frame ticks between the events.   *)
(***************************************************************************)
AnimEvent == Events({"c1"}, {Undefined}, {Undefined, "Compiling", "Linking"})

AnimPhaserEmit == \E event \in AnimEvent : PhaserEmit(event)
AnimPixiEmit == \E event \in AnimEvent : PixiEmit(event)
AnimPhaserTick == \E delta \in Deltas : PhaserTick(delta)
AnimPixiTick == \E delta \in Deltas : PixiTick(delta)

AnimNext == AnimPhaserEmit \/ AnimPixiEmit \/ AnimPhaserTick \/ AnimPixiTick

AnimSpec == Init /\ [][AnimNext]_vars

(***************************************************************************)
(* MockSpec: the mock generator of main.ts feeding the Phaser scene.  The  *)
(* pending timers are kept in the order in which they were set.  A timer   *)
(* may run late by any amount, but never before a timer that was set       *)
(* earlier with a delay that is not longer: the order that setTimeout and  *)
(* setInterval guarantee.  The model allows every order of the callbacks   *)
(* that this rule permits.                                                 *)
(***************************************************************************)
\* Largest counter value that the model turns into an agent.
MaxMock == 7

\* The delays of the three timeouts of spawnAgent and of the interval, and
\* the limit of the interval callback.
workDelay == 500
doneDelay == 3800
removeDelay == 6400
spawnInterval == 2200
activeLimit == 6

\* `codex-${counter}` and `Codex ${counter}`
mockId(counter) == "codex-" \o ToString(counter)
mockName(counter) == "Codex " \o ToString(counter)

\* The sequence s without its i-th entry.
WithoutAt(s, i) == SubSeq(s, 1, i - 1) \o SubSeq(s, i + 1, Len(s))

\* The i-th pending timer may run: no timer set before it with an equal or
\* shorter delay is still pending.
CanFire(timers, i) ==
  \A j \in 1..(i - 1) : timers[j].delay > timers[i].delay

\* spawnAgent(): the generator it leaves and the event it emits.
spawnAgent(mk) ==
  LET id == mockId(mk.counter)
      name == mockName(mk.counter)
  IN  [mock |-> [mk EXCEPT
                   !.counter = mk.counter + 1,
                   !.active = mk.active \cup {id},
                   !.timers = mk.timers \o
                     <<[id |-> id, type |-> "work", delay |-> workDelay],
                       [id |-> id, type |-> "done", delay |-> doneDelay],
                       [id |-> id, type |-> "remove", delay |-> removeDelay]>>],
       event |-> [type |-> "spawn", id |-> id, name |-> name]]

\* window.setInterval(callback, 2200): the interval's timer is set (again).
setInterval(mk) ==
  [mk EXCEPT !.timers =
     Append(mk.timers,
            [id |-> Undefined, type |-> "interval", delay |-> spawnInterval])]

\* Mutant: the interval spawns while no more than six agents are active.
CanSpawn_UpToLimit(active) == Cardinality(active) <= activeLimit

\* The test of the interval callback: active.size < 6.
CanSpawn(active) == Cardinality(active) < activeLimit

\* The event that the callback of a timeout emits.
TimeoutEvent(timer) ==
  CASE timer.type = "work" ->
         [type |-> "work", id |-> timer.id, label |-> "Building"]
    [] timer.type = "done" ->
         [type |-> "done", id |-> timer.id, label |-> "Complete"]
    [] timer.type = "remove" -> [type |-> "remove", id |-> timer.id]

\* target.emit(event) from the generator: CodexScene.emit with one event.
MockEmit(event) ==
  /\ phaser' = Phaser_applyAll(phaser, <<event>>)
  /\ hud' = Phaser_emitHud(hud, <<event>>)
  /\ last' = Applied(event)

\* The history of an interval callback that found six agents active.
Skipped == [op |-> "skip", known |-> FALSE, repeated |-> FALSE, freed |-> NoSlot]

\* startMock(target): counter = 1, active = new Set(), spawnAgent(), then
\* setInterval.
MockStart ==
  LET first == spawnAgent([started |-> TRUE, counter |-> 1, active |-> {},
                           timers |-> <<>>])
  IN  /\ variant = "phaser"
      /\ ~mock.started
      /\ mock' = setInterval(first.mock)
      /\ MockEmit(first.event)
      /\ UNCHANGED <<variant, lastSummary, pixi, twin>>

\* The callback of one of the three timeouts of an agent; the one that
\* removes also takes the id out of active.
MockTimeout(i) ==
  LET timer == mock.timers[i]
  IN  /\ variant = "phaser"
      /\ mock.started
      /\ timer.type # "interval"
      /\ CanFire(mock.timers, i)
      /\ MockEmit(TimeoutEvent(timer))
      /\ mock' = [mock EXCEPT
                    !.timers = WithoutAt(mock.timers, i),
                    !.active = IF timer.type = "remove"
                               THEN mock.active \ {timer.id}
                               ELSE mock.active]
      /\ UNCHANGED <<variant, lastSummary, pixi, twin>>

\* The callback of the interval: spawnAgent() if fewer than six agents are
\* active; after it the interval's timer is set again.
MockInterval(i) ==
  LET fired == [mock EXCEPT !.timers = WithoutAt(mock.timers, i)]
      spawned == spawnAgent(fired)
  IN  /\ variant = "phaser"
      /\ mock.started
      /\ mock.timers[i].type = "interval"
      /\ CanFire(mock.timers, i)
      /\ IF CanSpawn(mock.active)
         THEN /\ mock.counter <= MaxMock
              /\ mock' = setInterval(spawned.mock)
              /\ MockEmit(spawned.event)
         ELSE /\ mock' = setInterval(fired)
              /\ last' = Skipped
              /\ UNCHANGED <<phaser, hud>>
      /\ UNCHANGED <<variant, lastSummary, pixi, twin>>

MockInit == Init /\ variant = "phaser"

MockTimeoutAny == \E i \in 1..Len(mock.timers) : MockTimeout(i)
MockIntervalAny == \E i \in 1..Len(mock.timers) : MockInterval(i)

MockNext == MockStart \/ MockTimeoutAny \/ MockIntervalAny

MockSpec == MockInit /\ [][MockNext]_vars

(***************************************************************************)
(* Shorthands over the history variable.                                   *)
(***************************************************************************)
\* The latest step applied a spawn / state / remove event.
LastSpawn == last.op = "emit" /\ last.event.type = "spawn"
LastState == last.op = "emit" /\ last.event.type \in {"work", "idle", "done"}
LastRemove == last.op = "emit" /\ last.event.type = "remove"

\* The ids of an order list.
OrderIds(m) == {m.order[i] : i \in 1..Len(m.order)}

\* m2 is m1 but for the display name of agent id.
SameButName(m1, m2, id) ==
  /\ Has(m2.agents, id)
  /\ m2 = [m1 EXCEPT !.agents[id].name = m2.agents[id].name]

(***************************************************************************)
(* C1: spawn(id, name) of an id already in the registry changes only that  *)
(* agent's display name: its state, status label and position, the order   *)
(* list and every other agent stay as they were, in both variants.         *)
(***************************************************************************)
C1_RespawnChangesOnlyName ==
  [][(LastSpawn /\ last.known)' =>
       LET id == last'.event.id
           name == Coalesce(last'.event.name, "Codex Agent")
       IN  /\ variant = "phaser" =>
                /\ SameButName(phaser, phaser', id)
                /\ phaser'.agents[id].name = name
                /\ getSummary(phaser') = getSummary(phaser)
           /\ variant = "pixi" =>
                /\ SameButName(pixi, pixi', id)
                /\ pixi'.agents[id].name = name]_vars

\* A working agent with a custom label was spawned again under a new name,
\* next to another registered agent.
C1_Witness ==
  /\ LastSpawn /\ last.known /\ last.event.name = "Builder"
  /\ Cardinality(DOMAIN Registry.agents) = 2
  /\ Registry.agents[last.event.id].state = "working"
  /\ Registry.agents[last.event.id].status = "Compiling"
  /\ Registry.agents[last.event.id].name = "Builder"

(***************************************************************************)
(* C2: after any sequence of events the counts of the summary add up:      *)
(* working + idle + done = total.                                          *)
(***************************************************************************)
C2_SummaryAddsUp ==
  LET summary == getSummary(phaser)
  IN  summary.working + summary.idle + summary.done = summary.total

\* Two agents in different states, right after a state event.
C2_Witness ==
  /\ LastState /\ last.known
  /\ getSummary(phaser).total = 2
  /\ getSummary(phaser).working = 1
  /\ getSummary(phaser).idle = 1

(***************************************************************************)
(* C3: the summary's total is the number of registered agents, and each of *)
(* working / idle / done is the number of registered agents whose own      *)
(* visual state is that state.                                             *)
(***************************************************************************)
C3_SummaryCountsAgents ==
  LET summary == getSummary(phaser)
      inState(state) ==
        Cardinality({id \in DOMAIN phaser.agents : phaser.agents[id].state = state})
  IN  /\ summary.total = Cardinality(DOMAIN phaser.agents)
      /\ summary.total = Len(phaser.order)
      /\ summary.working = inState("working")
      /\ summary.idle = inState("idle")
      /\ summary.done = inState("done")

\* spawn(c1); spawn(c2); work(c1); done(c2) gives total 2, working 1,
\* idle 0, done 1.
C3_Witness ==
  /\ LastState /\ last.event = [type |-> "done", id |-> "c2", label |-> Undefined]
  /\ phaser.order = <<"c1", "c2">>
  /\ phaser.agents["c1"].state = "working"
  /\ getSummary(phaser) = [total |-> 2, working |-> 1, idle |-> 0, done |-> 1]

(***************************************************************************)
(* C4: setState(id, state, label) of an id that is not registered does     *)
(* nothing: no agent appears, the agents, state map, order list and        *)
(* summary stay as they were, in both variants; and the event is not kept: *)
(* the id spawned right afterwards is idle with the label "IDLE".          *)
(***************************************************************************)
C4_SetStateUnknownIsNoOp ==
  [][/\ (LastState /\ ~last.known)' =>
          /\ phaser' = phaser
          /\ pixi' = pixi
          /\ getSummary(phaser') = getSummary(phaser)
          /\ ~Has(Registry'.agents, last'.event.id)
     /\ (LastState /\ ~last.known /\ LastSpawn' /\ last'.event.id = last.event.id) =>
          /\ Registry'.agents[last'.event.id].state = "idle"
          /\ Registry'.agents[last'.event.id].status = "IDLE"
          /\ variant = "phaser" => phaser'.stateById[last'.event.id] = "idle"]_vars

\* A labelled work event for an id that is not registered was applied while
\* another agent is registered.
C4_Witness ==
  /\ LastState /\ ~last.known
  /\ last.event.type = "work" /\ last.event.label = "Compiling"
  /\ Cardinality(DOMAIN Registry.agents) = 1
  /\ ~Has(Registry.agents, last.event.id)

(***************************************************************************)
(* C5: remove(id) of an id that is not registered does nothing: the size   *)
(* of the registry, every agent's state and position and the order list    *)
(* stay as they were, in both variants.                                    *)
(***************************************************************************)
C5_RemoveUnknownIsNoOp ==
  [][(LastRemove /\ ~last.known)' =>
       /\ phaser' = phaser
       /\ pixi' = pixi
       /\ Cardinality(DOMAIN Registry'.agents) = Cardinality(DOMAIN Registry.agents)
       /\ Registry'.order = Registry.order]_vars

\* A remove for an id that is not registered was applied while a working
\* agent is registered.
C5_Witness ==
  /\ LastRemove /\ ~last.known
  /\ Cardinality(DOMAIN Registry.agents) = 1
  /\ \E id \in DOMAIN Registry.agents : Registry.agents[id].state = "working"

(***************************************************************************)
(* C6: remove(id) of a registered id deletes exactly that agent: the id    *)
(* leaves the agent map, the state map and the order list, the registry    *)
(* shrinks by one, and the agents that remain keep their states and their  *)
(* relative sequence in the order list.                                    *)
(***************************************************************************)
C6_RemoveDeletesExactlyOne ==
  [][(LastRemove /\ last.known)' =>
       LET id == last'.event.id
           before == Registry
           after == Registry'
       IN  /\ Has(before.agents, id)
           /\ DOMAIN after.agents = DOMAIN before.agents \ {id}
           /\ OrderIds(after) = OrderIds(before) \ {id}
           /\ Len(after.order) = Len(before.order) - 1
           /\ Cardinality(DOMAIN after.agents) = Cardinality(DOMAIN before.agents) - 1
           /\ variant = "phaser" =>
                /\ DOMAIN phaser'.stateById = DOMAIN phaser.stateById \ {id}
                /\ \A o \in DOMAIN phaser'.stateById :
                     phaser'.stateById[o] = phaser.stateById[o]
           /\ \A o \in DOMAIN after.agents :
                /\ after.agents[o].state = before.agents[o].state
                /\ after.agents[o].status = before.agents[o].status
                /\ after.agents[o].name = before.agents[o].name
           /\ \A a, b \in OrderIds(after) :
                IndexOf(after.order, a) < IndexOf(after.order, b)
                  <=> IndexOf(before.order, a) < IndexOf(before.order, b)]_vars

\* The agent spawned second of three was removed; the first, working, and
\* the third, idle, remain in that sequence.
C6_Witness ==
  /\ LastRemove /\ last.known /\ last.event.id = "c2"
  /\ Registry.order = <<"c1", "c3">>
  /\ Registry.agents["c1"].rowIndex = 0
  /\ Registry.agents["c3"].rowIndex = 2
  /\ Registry.agents["c1"].state = "working"
  /\ Registry.agents["c3"].state = "idle"

(***************************************************************************)
(* C7: spawn(id, name) of an id that is not registered creates an agent    *)
(* that is idle with the status label "IDLE" and appends the id to the     *)
(* order list; the agents registered before keep their state and their     *)
(* index in the order list.                                                *)
(***************************************************************************)
C7_SpawnCreatesIdleAtEnd ==
  [][(LastSpawn /\ ~last.known)' =>
       LET id == last'.event.id
           before == Registry
           after == Registry'
       IN  /\ ~Has(before.agents, id)
           /\ DOMAIN after.agents = DOMAIN before.agents \cup {id}
           /\ after.agents[id].state = "idle"
           /\ after.agents[id].status = "IDLE"
           /\ after.agents[id].name = Coalesce(last'.event.name, "Codex Agent")
           /\ variant = "phaser" => phaser'.stateById[id] = "idle"
           /\ after.order = Append(before.order, id)
           /\ after.order[Len(after.order)] = id
           /\ \A o \in DOMAIN before.agents :
                /\ after.agents[o].state = before.agents[o].state
                /\ after.agents[o].status = before.agents[o].status
                /\ IndexOf(after.order, o) = IndexOf(before.order, o)]_vars

\* A new id was spawned behind an agent that is done with a custom label.
C7_Witness ==
  /\ LastSpawn /\ ~last.known
  /\ Len(Registry.order) = 2
  /\ Registry.order[2] = last.event.id
  /\ Registry.agents[Registry.order[1]].state = "done"
  /\ Registry.agents[Registry.order[1]].status = "Compiling"

(***************************************************************************)
(* C8: in both variants, after setState(id, s, label) of a registered id   *)
(* the agent is in state s and shows the label if one was given, and the   *)
(* default of s ("IDLE", "WORKING", "DONE") otherwise, whatever its state  *)
(* and label were before.                                                  *)
(***************************************************************************)
C8_SetStateShowsLabelOrDefault ==
  (LastState /\ last.known) =>
    LET agent == Registry.agents[last.event.id]
        state == TargetState(last.event.type)
    IN  /\ agent.state = state
        /\ agent.status = Coalesce(last.event.label, DEFAULT_STATUS(state))

(***************************************************************************)
(* C9: spawn is idempotent: applying spawn(id, name) a second time in a    *)
(* row leaves the registry (agents, names, states, labels, order list,     *)
(* positions) exactly as the first application left it.                    *)
(***************************************************************************)
C9_SpawnIdempotent ==
  [][(LastSpawn /\ last.repeated)' =>
       /\ last.op = "emit" /\ last.event = last'.event
       /\ phaser' = phaser
       /\ pixi' = pixi
       /\ hud' = hud]_vars

\* The same spawn was applied twice in a row, next to a working agent.
C9_Witness ==
  /\ LastSpawn /\ last.repeated
  /\ Len(Registry.order) = 2
  /\ Registry.order[2] = last.event.id
  /\ Registry.agents[Registry.order[1]].state = "working"
  /\ Registry.agents[last.event.id].name = "Builder"

(***************************************************************************)
(* C10: layout is deterministic: two registries that hold the same order   *)
(* list and were last laid out with the same viewport width and height     *)
(* give every agent the same x / y position (and so the same cell),        *)
(* whatever event history produced the order list.                         *)
(***************************************************************************)
\* The two managers agree on the position of every agent.
SamePositions(m1, m2) ==
  /\ DOMAIN m1.agents = DOMAIN m2.agents
  /\ \A id \in DOMAIN m1.agents :
       /\ m1.agents[id].x = m2.agents[id].x
       /\ m1.agents[id].y = m2.agents[id].y

\* The claim as stated, for every viewport size.
C10_LayoutDeterministic ==
  (Registry.order = twin.order /\ Registry.layoutSize = twin.layoutSize)
    => SamePositions(Registry, twin)

\* The claim for viewports of non-zero width and height.
C10_LayoutDeterministicNonZero ==
  (/\ Registry.order = twin.order
   /\ Registry.layoutSize = twin.layoutSize
   /\ Registry.layoutSize.width # 0
   /\ Registry.layoutSize.height # 0)
    => SamePositions(Registry, twin)

\* Two managers with the same two-agent order list and the same non-zero
\* viewport, reached by different histories: the first agent of the one was
\* spawned into an empty list, that of the other behind another agent.
C10_Witness ==
  /\ Registry.order = twin.order
  /\ Len(Registry.order) = 2
  /\ Registry.layoutSize = twin.layoutSize
  /\ Registry.layoutSize.width # 0
  /\ Registry.layoutSize.height # 0
  /\ Registry.agents[Registry.order[1]].rowIndex = 0
  /\ twin.agents[twin.order[1]].rowIndex = 1
  /\ LastSpawn

(***************************************************************************)
(* C11: after remove(id) of a registered agent the freed order slot is not *)
(* reused: an agent spawned afterwards is placed at the index equal to the *)
(* length of the order list at the time of its spawn, after all remaining  *)
(* agents, and never at the index that the removed agent vacated.          *)
(***************************************************************************)
\* The latest step spawned a new id directly after the remove of a
\* registered id.
SpawnAfterRemove == LastSpawn /\ ~last.known /\ last.freed # NoSlot

\* The claim as stated: the new agent is last and not in the vacated slot.
C11_FreedSlotNotReused ==
  SpawnAfterRemove =>
    /\ IndexOf(Registry.order, last.event.id) = Len(Registry.order) - 1
    /\ IndexOf(Registry.order, last.event.id) # last.freed

\* What holds: every new agent, and so every one spawned after a remove, is
\* placed at the length the order list had when it was spawned, behind all
\* remaining agents, which keep their indexes.  The vacated index is taken
\* again: by a remaining agent that moved up, or by the new agent when the
\* removed agent was the last of the list.
C11_SpawnContinuesFromLength ==
  [][(LastSpawn /\ ~last.known)' =>
       LET id == last'.event.id
           before == Registry
           after == Registry'
       IN  /\ IndexOf(after.order, id) = Len(before.order)
           /\ Len(after.order) = Len(before.order) + 1
           /\ \A o \in OrderIds(before) :
                /\ IndexOf(after.order, o) = IndexOf(before.order, o)
                /\ IndexOf(after.order, o) < IndexOf(after.order, id)
           /\ SpawnAfterRemove' =>
                /\ last'.freed = last.freed
                /\ last'.freed <= Len(before.order)
                /\ last'.freed < Len(after.order)
                /\ (last'.freed = Len(before.order)) <=>
                      (IndexOf(after.order, id) = last'.freed)]_vars

\* The last of three agents was removed and a new one spawned: it sits at
\* index 2, the index the removed agent had.
C11_Witness ==
  /\ SpawnAfterRemove
  /\ Len(Registry.order) = 3
  /\ last.freed = 2
  /\ Registry.order[3] = last.event.id

(***************************************************************************)
(* C12: an agent's spawn order index is immutable once assigned: from its  *)
(* spawn until its remove, the index that determines its grid cell and its *)
(* animation row does not change, whatever spawn, setState, remove (of     *)
(* other ids) or layout operations are applied in between.                 *)
(***************************************************************************)
\* The agents registered before and after the step.
Staying == DOMAIN Registry.agents \cap DOMAIN Registry'.agents

\* The claim as stated: no step changes the order index or the animation
\* row of an agent that stays registered.
C12_OrderIndexImmutable ==
  [][\A id \in Staying :
       /\ IndexOf(Registry'.order, id) = IndexOf(Registry.order, id)
       /\ Registry'.agents[id].rowIndex = Registry.agents[id].rowIndex]_vars

\* What holds: the animation row never changes; the order index, which
\* gives the grid cell, is kept by every spawn, state event, layout and
\* remove of an id behind the agent, and drops by one with the remove of an
\* id in front of it.
C12_AnimationRowImmutable ==
  [][\A id \in Staying :
       LET removedInFront ==
             /\ (LastRemove /\ last.known)'
             /\ last'.freed < IndexOf(Registry.order, id)
       IN  /\ Registry'.agents[id].rowIndex = Registry.agents[id].rowIndex
           /\ ~removedInFront =>
                IndexOf(Registry'.order, id) = IndexOf(Registry.order, id)
           /\ removedInFront =>
                IndexOf(Registry'.order, id) = IndexOf(Registry.order, id) - 1]_vars

\* The first of three agents was removed: the other two moved up to the
\* indexes 0 and 1 and kept the animation rows 1 and 2 they were spawned
\* with.
C12_Witness ==
  /\ LastRemove /\ last.known /\ last.freed = 0
  /\ Len(Registry.order) = 2
  /\ Registry.agents[Registry.order[1]].rowIndex = 1
  /\ Registry.agents[Registry.order[2]].rowIndex = 2
  /\ Registry.agents[Registry.order[1]].state = "working"

(***************************************************************************)
(* C13: the events of a batch are applied in array order: emit([e1, ...,   *)
(* en]) leaves the registry (agents, names, states, labels, order list,    *)
(* positions) in the state reached by emit(e1); ...; emit(en) applied one  *)
(* at a time from the same starting state, and emit(e) equals emit([e]).   *)
(***************************************************************************)
\* The latest step called emit with a payload.
LastBatch == last.op = "batch"

\* emit(event), the payload being one event and not an array.
EmitOne(m, event) ==
  ApplyAll(m, toEventArray([isArray |-> FALSE, item |-> event]))

\* emit(e1); ...; emit(en), one call after the other.
RECURSIVE OneAtATime(_, _)
OneAtATime(m, events) ==
  IF events = <<>> THEN m
  ELSE OneAtATime(EmitOne(m, Head(events)), Tail(events))

C13_BatchEqualsSequence ==
  [][LastBatch' =>
       LET payload == last'.payload
           events == toEventArray(payload)
       IN  /\ Registry' = OneAtATime(Registry, events)
           /\ ~payload.isArray =>
                Registry' = ApplyAll(Registry,
                              toEventArray([isArray |-> TRUE, items |-> <<payload.item>>]))
           /\ events = <<>> => Registry' = Registry]_vars

\* The batch [spawn c1, work c1 'Compiling'] was applied to a registry
\* without c1: c1 is working, which the other order would not give.
C13_Witness ==
  /\ LastBatch /\ last.payload.isArray
  /\ last.payload.items = <<[type |-> "spawn", id |-> "c1", name |-> Undefined],
                            [type |-> "work", id |-> "c1", label |-> "Compiling"]>>
  /\ Registry.order = <<"c2", "c1">>
  /\ Registry.agents["c1"].state = "working"
  /\ Registry.agents["c1"].status = "Compiling"
  /\ Registry.agents["c1"].rowIndex = 1

KeepsVisualState(id) ==
  /\ Has(Registry'.agents, id)
  /\ Registry'.agents[id].state = Registry.agents[id].state
  /\ Registry'.agents[id].status = Registry.agents[id].status
  /\ Registry'.agents[id].name = Registry.agents[id].name
  /\ variant = "phaser" =>
       /\ phaser'.stateById[id] = phaser.stateById[id]
       /\ phaser'.agents[id].anim = phaser.agents[id].anim
       /\ phaser'.agents[id].color = phaser.agents[id].color
  /\ variant = "pixi" =>
       /\ pixi'.agents[id].textures = pixi.agents[id].textures
       /\ pixi'.agents[id].fill = pixi.agents[id].fill

C15_OnlyEventsChangeState ==
  [][/\ (last.op \in {"tick", "resize"})' =>
          /\ DOMAIN Registry'.agents = DOMAIN Registry.agents
          /\ Registry'.order = Registry.order
          /\ \A id \in DOMAIN Registry.agents : KeepsVisualState(id)
     /\ \A id \in DOMAIN Registry.agents :
          (~Has(Registry'.agents, id)
             \/ Registry'.agents[id].state # Registry.agents[id].state) =>
            /\ last'.op = "emit"
            /\ last'.event.id = id
            /\ last'.event.type \in {"work", "idle", "done", "remove"}]_vars

\* A frame tick has run while one agent is working and another is done:
\* their clocks moved, the working one bobs, and both kept their states.
C15_Witness ==
  /\ last.op = "tick"
  /\ Len(Registry.order) = 2
  /\ Registry.agents[Registry.order[1]].state = "working"
  /\ Registry.agents[Registry.order[1]].motion = "bob"
  /\ Registry.agents[Registry.order[1]].time = MaxTime
  /\ Registry.agents[Registry.order[2]].state = "done"
  /\ Registry.agents[Registry.order[2]].time > 0

(***************************************************************************)
(* C16: the core has no fatal error path for out-of-order input: for every *)
(* finite sequence of spawn / work / idle / done / remove events over a    *)
(* bounded id set, in any order (state or remove before spawn, duplicate   *)
(* spawn, repeated remove, events after remove), every event application   *)
(* completes without raising and the registry remains well-formed.         *)
(***************************************************************************)
\* No id twice in the order list.
NoDuplicates(order) ==
  \A i, j \in 1..Len(order) : order[i] = order[j] => i = j

\* The structures of a registry agree, and every agent holds a state and
\* an animation row for which the animations (Phaser) or the frames (Pixi)
\* exist, so that no lookup made for it comes back undefined.
WellFormed(m) ==
  /\ NoDuplicates(m.order)
  /\ OrderIds(m) = DOMAIN m.agents
  /\ \A id \in DOMAIN m.agents :
       /\ m.agents[id].state \in CodexStates
       /\ m.agents[id].rowIndex >= 0
       /\ variant = "phaser" =>
            /\ m.agents[id].rowIndex < createAnimations_rows
            /\ m.agents[id].anim \in
                 {k \o ToString(row) :
                    k \in {"hero-idle-", "hero-work-", "hero-done-"},
                    row \in 0..(createAnimations_rows - 1)}
       /\ variant = "pixi" => m.agents[id].rowIndex < heroFrames_length
  /\ variant = "phaser" =>
       /\ DOMAIN m.stateById = DOMAIN m.agents
       /\ \A id \in DOMAIN m.stateById : m.stateById[id] \in CodexStates

C16_NoFatalErrorPath ==
  /\ WellFormed(Registry)
  /\ \A event \in CodexEvent :
       WellFormed(IF variant = "phaser" THEN Phaser_applyAll(phaser, <<event>>)
                  ELSE Pixi_applyAll(pixi, <<event>>))

\* A remove was applied to a registry without any agent: a remove before
\* the spawn, or a remove repeated.
C16_Witness ==
  /\ LastRemove /\ ~last.known
  /\ Registry.order = <<>>
  /\ DOMAIN Registry.agents = {}
  /\ variant = "phaser" => hud.lastEvent = "Removed c2"

(***************************************************************************)
(* C17: malformed event payloads (wrong shape or unknown type) are ignored *)
(* at the transport boundary, not inside the registry: a WebSocket message *)
(* whose parsed JSON is not a valid CodexEvent (or array of them) is       *)
(* dropped by the transport and never passed to emit, so it changes        *)
(* neither the registry nor the HUD.                                       *)
(***************************************************************************)
C17_MalformedDroppedAtTransport ==
  [][(last.op = "message" /\ ~last.valid)' =>
       /\ ~last'.passed
       /\ phaser' = phaser
       /\ hud' = hud]_vars

(***************************************************************************)
(* C18: re-entering the same state with a new label updates only the       *)
(* label, not the animation: for a registered agent already in state s,    *)
(* setState(id, s, newLabel) changes the status label to newLabel and does *)
(* not restart or re-select the agent's animation loop, in both variants.  *)
(***************************************************************************)
\* The step applies a state event with a label to a registered agent that
\* is in the event's state and shows another label.
RelabelStep ==
  /\ LastState' /\ last'.known
  /\ Truthy(last'.event.label)
  /\ Registry.agents[last'.event.id].state = TargetState(last'.event.type)
  /\ Registry.agents[last'.event.id].status # last'.event.label

C18_RelabelKeepsAnimation ==
  [][RelabelStep =>
       LET id == last'.event.id
       IN  /\ Registry'.agents[id].status = last'.event.label
           /\ Registry'.agents[id].state = Registry.agents[id].state
           /\ Registry'.agents[id].animTime = Registry.agents[id].animTime]_vars

(***************************************************************************)
(* C19: in every reachable state and for every registered agent, the       *)
(* decorations match the visual state: the selected animation loop and     *)
(* the status colour are those of the current state, the tool emote        *)
(* (hammer, and spark in Phaser) is visible exactly when the state is      *)
(* working, and the completion icon is visible exactly when the state is   *)
(* done; an idle agent shows neither.                                      *)
(***************************************************************************)
\* The animation loop of a Phaser agent is that of its state and row.
Phaser_AnimationMatches(agent) ==
  agent.anim = (CASE agent.state = "idle" -> "hero-idle-"
                  [] agent.state = "working" -> "hero-work-"
                  [] agent.state = "done" -> "hero-done-")
                 \o ToString(agent.rowIndex)

\* A Phaser agent shows hammer and spark when working, the icon when done.
Phaser_EmotesMatch(agent) ==
  /\ agent.hammer <=> agent.state = "working"
  /\ agent.spark <=> agent.state = "working"
  /\ agent.doneIcon <=> agent.state = "done"

\* The frames of a Pixi agent are those of its state.
Pixi_AnimationMatches(agent) ==
  agent.textures = (CASE agent.state = "idle" -> "idle"
                      [] agent.state = "working" -> "work"
                      [] agent.state = "done" -> "done")

\* The one emote sprite of a Pixi agent shows the hammer when working and
\* the completion icon when done, and is hidden when idle.
Pixi_EmotesMatch(agent) ==
  /\ (agent.emoteVisible /\ agent.emoteTexture = "hammer") <=> agent.state = "working"
  /\ (agent.emoteVisible /\ agent.emoteTexture = "done") <=> agent.state = "done"
  /\ agent.state = "idle" => ~agent.emoteVisible

C19_DecorationsMatchState ==
  /\ \A id \in DOMAIN phaser.agents :
       /\ Phaser_AnimationMatches(phaser.agents[id])
       /\ Phaser_EmotesMatch(phaser.agents[id])
       /\ phaser.agents[id].color = STATUS_COLORS(phaser.agents[id].state)
  /\ \A id \in DOMAIN pixi.agents :
       /\ Pixi_AnimationMatches(pixi.agents[id])
       /\ Pixi_EmotesMatch(pixi.agents[id])
       /\ pixi.agents[id].fill = Pixi_STATUS_COLORS(pixi.agents[id].state)

(***************************************************************************)
(* C20: for a viewport with non-zero width and height, layout uses         *)
(* columns = max(1, floor(max(1, width - 72) / 160)) and places the agent  *)
(* at order-list index i in column i mod columns and row floor(i /         *)
(* columns), at x = 36 + column * 160 + 80 and y = round(0.72 * height) -  *)
(* row * 120, so row 0 sits on the ground line and higher rows have        *)
(* strictly smaller y (they stack upward).                                 *)
(***************************************************************************)
\* g is 0.72 * height rounded to the nearest integer.
IsRoundOf72Percent(g, height) ==
  /\ 100 * g - 72 * height <= 50
  /\ 72 * height - 100 * g < 50

C20_LayoutFormula ==
  LET m == Registry
      width == m.layoutSize.width
      height == m.layoutSize.height
      columns == IF (IF width - 72 > 1 THEN width - 72 ELSE 1) \div 160 > 1
                 THEN (IF width - 72 > 1 THEN width - 72 ELSE 1) \div 160
                 ELSE 1
      column(id) == IndexOf(m.order, id) % columns
      row(id) == IndexOf(m.order, id) \div columns
  IN  (width # 0 /\ height # 0) =>
        /\ \A id \in DOMAIN m.agents :
             /\ m.agents[id].x = 36 + column(id) * 160 + 80
             /\ IsRoundOf72Percent(m.agents[id].y + row(id) * 120, height)
        /\ \A a, b \in DOMAIN m.agents :
             /\ row(a) = 0 => IsRoundOf72Percent(m.agents[a].y, height)
             /\ row(a) < row(b) => m.agents[b].y < m.agents[a].y
             /\ (row(a) = row(b) /\ column(a) < column(b)) =>
                  /\ m.agents[a].y = m.agents[b].y
                  /\ m.agents[a].x < m.agents[b].x

\* Three agents in a viewport of 392 by 500, which has two columns: the
\* first two stand on the ground line at y = 360, the third one row up.
C20_Witness ==
  /\ Registry.layoutSize = [width |-> 392, height |-> 500]
  /\ Len(Registry.order) = 3
  /\ Registry.agents[Registry.order[1]].x = 116
  /\ Registry.agents[Registry.order[1]].y = 360
  /\ Registry.agents[Registry.order[2]].x = 276
  /\ Registry.agents[Registry.order[2]].y = 360
  /\ Registry.agents[Registry.order[3]].x = 116
  /\ Registry.agents[Registry.order[3]].y = 240

(***************************************************************************)
(* C21: layout is recomputed on every spawn, remove and viewport resize:   *)
(* after each such operation, every registered agent's position equals the *)
(* cell position computed from its current order-list index and the most   *)
(* recently supplied viewport size (for every viewport size, including one *)
(* whose width or height is 0).                                            *)
(***************************************************************************)
\* The position of the cell of order index i in a viewport.
CellPosition(index, width, height) ==
  LET columns == Max(1, Max(1, width - 2 * padding) \div cellWidth)
  IN  [x |-> padding + (index % columns) * cellWidth + cellWidth \div 2,
       y |-> RoundGroundY(height) - (index \div columns) * cellHeight]

\* Agent id of registry m stands on the cell of its order index.
OnItsCell(m, id) ==
  LET cell == CellPosition(IndexOf(m.order, id),
                           m.layoutSize.width, m.layoutSize.height)
  IN  m.agents[id].x = cell.x /\ m.agents[id].y = cell.y

\* The latest step was a spawn, a remove or a resize.
LastLayoutOp == LastSpawn \/ LastRemove \/ last.op = "resize"

\* The claim as stated, for every viewport size.
C21_LayoutAlwaysCurrent ==
  LastLayoutOp => \A id \in DOMAIN Registry.agents : OnItsCell(Registry, id)

\* What holds: for a viewport of non-zero width and height every agent
\* stands on the cell of its index after each spawn, remove and resize; an
\* event keeps the recorded viewport; and with a width or height of 0 the
\* operation places nobody: agents keep their positions and a new agent
\* stays at (0, 0).
C21_LayoutCurrentNonZero ==
  [][LastLayoutOp' =>
       LET after == Registry'
           nonZero == after.layoutSize.width # 0 /\ after.layoutSize.height # 0
       IN  /\ last'.op = "emit" => after.layoutSize = Registry.layoutSize
           /\ nonZero => \A id \in DOMAIN after.agents : OnItsCell(after, id)
           /\ ~nonZero =>
                \A id \in DOMAIN after.agents :
                  IF Has(Registry.agents, id)
                  THEN /\ after.agents[id].x = Registry.agents[id].x
                       /\ after.agents[id].y = Registry.agents[id].y
                  ELSE after.agents[id].x = 0 /\ after.agents[id].y = 0]_vars

\* The first of three agents was removed in a viewport of one column: the
\* two that remain stand on the cells of the indexes 0 and 1.
C21_Witness ==
  /\ LastRemove /\ last.known /\ last.freed = 0
  /\ Registry.layoutSize = [width |-> 232, height |-> 600]
  /\ Len(Registry.order) = 2
  /\ Registry.agents[Registry.order[1]].x = 116
  /\ Registry.agents[Registry.order[1]].y = 432
  /\ Registry.agents[Registry.order[2]].x = 116
  /\ Registry.agents[Registry.order[2]].y = 312

(***************************************************************************)
(* C22: the Phaser variant never compacts on removal (after remove(id)     *)
(* every remaining agent keeps the cell it had before), while the Pixi     *)
(* variant re-flows immediately into consecutive cells.                    *)
(***************************************************************************)
\* The step removes a registered agent.
RemoveStep == LastRemove' /\ last'.known

\* After the step the agents stand on the consecutive cells 0..n-1, in the
\* order they had, the ones behind the removed agent one cell lower.
Reflowed ==
  LET after == Registry'
      nonZero == after.layoutSize.width # 0 /\ after.layoutSize.height # 0
  IN  /\ after.order = FilterOut(Registry.order, last'.event.id)
      /\ \A id \in DOMAIN after.agents :
           /\ IndexOf(after.order, id) =
                IF IndexOf(Registry.order, id) > last'.freed
                THEN IndexOf(Registry.order, id) - 1
                ELSE IndexOf(Registry.order, id)
           /\ nonZero => OnItsCell(after, id)

\* The claim as stated: Phaser keeps every remaining agent on its cell,
\* Pixi re-flows.
C22_PhaserKeepsCellsPixiReflows ==
  [][RemoveStep =>
       /\ variant = "phaser" =>
            \A id \in Staying :
              /\ IndexOf(Registry'.order, id) = IndexOf(Registry.order, id)
              /\ Registry'.agents[id].x = Registry.agents[id].x
              /\ Registry'.agents[id].y = Registry.agents[id].y
       /\ variant = "pixi" => Reflowed]_vars

\* What holds: both builds re-flow on removal.
C22_BothReflowOnRemove ==
  [][RemoveStep => Reflowed]_vars

\* The Phaser build removed the first of three agents in a viewport of two
\* columns: the agent that stood on cell 2, at (116, 240), is on cell 1.
C22_Witness ==
  /\ variant = "phaser"
  /\ LastRemove /\ last.known /\ last.freed = 0
  /\ Registry.layoutSize = [width |-> 392, height |-> 500]
  /\ Len(Registry.order) = 2
  /\ Registry.agents[Registry.order[2]].x = 276
  /\ Registry.agents[Registry.order[2]].y = 360

(***************************************************************************)
(* C23: the visual grid is bounded: for every non-zero viewport size and   *)
(* every number of registered agents, each agent's assigned position lies  *)
(* inside the viewport, i.e. 0 <= x <= width and 0 <= y <= height.         *)
(***************************************************************************)
C23_PositionsInsideViewport ==
  (Registry.layoutSize.width # 0 /\ Registry.layoutSize.height # 0) =>
    \A id \in DOMAIN Registry.agents :
      /\ 0 <= Registry.agents[id].x
      /\ Registry.agents[id].x <= Registry.layoutSize.width
      /\ 0 <= Registry.agents[id].y
      /\ Registry.agents[id].y <= Registry.layoutSize.height

(***************************************************************************)
(* C24: the registry's structures stay consistent: the order list holds no *)
(* id twice, and the set of ids in the order list equals the key set of    *)
(* the agent map and, in the Phaser variant, the key set of the state map; *)
(* an id is in them exactly from its spawn until its remove.               *)
(***************************************************************************)
\* The order list, the agent map and the state map of m hold the same ids.
SameIds(m) ==
  /\ NoDuplicates(m.order)
  /\ OrderIds(m) = DOMAIN m.agents
  /\ variant = "phaser" => DOMAIN m.stateById = DOMAIN m.agents

C24_StructuresConsistent ==
  [][/\ SameIds(Registry) /\ SameIds(Registry')
     /\ \A id \in GridIds :
          Has(Registry'.agents, id) <=>
            \/ /\ Has(Registry.agents, id)
               /\ ~(LastRemove' /\ last'.event.id = id)
            \/ LastSpawn' /\ last'.event.id = id]_vars

\* The Phaser build removed one of three agents: the id is gone from the
\* order list, the agent map and the state map, the other two are in each.
C24_Witness ==
  /\ variant = "phaser"
  /\ LastRemove /\ last.known
  /\ Len(phaser.order) = 2
  /\ last.event.id \notin OrderIds(phaser)
  /\ ~Has(phaser.agents, last.event.id)
  /\ ~Has(phaser.stateById, last.event.id)
  /\ DOMAIN phaser.stateById = OrderIds(phaser)

(***************************************************************************)
(* C25: in the Phaser variant the manager's state map always mirrors the   *)
(* agents: stateById[id] equals the agent's own state for every registered *)
(* id.                                                                     *)
(***************************************************************************)
C25_StateMapMirrorsAgents ==
  variant = "phaser" =>
    \A id \in DOMAIN phaser.agents :
      /\ Has(phaser.stateById, id)
      /\ phaser.stateById[id] = phaser.agents[id].state

\* A work event has just been applied to a registered agent of the Phaser
\* build: the agent and the state map both say working, next to an agent
\* that both say is done.
C25_Witness ==
  /\ variant = "phaser"
  /\ LastState /\ last.known /\ last.event.type = "work"
  /\ phaser.agents[last.event.id].state = "working"
  /\ phaser.stateById[last.event.id] = "working"
  /\ \E id \in DOMAIN phaser.agents :
       phaser.agents[id].state = "done" /\ phaser.stateById[id] = "done"

StaysPut(id) ==
  /\ IndexOf(Registry'.order, id) = IndexOf(Registry.order, id)
  /\ Registry'.agents[id].x = Registry.agents[id].x
  /\ Registry'.agents[id].y = Registry.agents[id].y

C27_OnlyRemoveAndResizeMove ==
  [][/\ (LastSpawn' \/ LastState') =>
          /\ Registry'.layoutSize = Registry.layoutSize
          /\ DOMAIN Registry.agents \subseteq DOMAIN Registry'.agents
          /\ \A id \in DOMAIN Registry.agents : StaysPut(id)
     /\ \A id \in Staying :
          ~StaysPut(id) => (LastRemove' /\ last'.known) \/ last'.op = "resize"]_vars

\* A third agent has just been spawned in a viewport of two columns: the
\* two that were registered stand on the cells 0 and 1 as before, the new
\* one on cell 2.
C27_Witness ==
  /\ LastSpawn /\ ~last.known
  /\ Registry.layoutSize = [width |-> 392, height |-> 500]
  /\ Len(Registry.order) = 3
  /\ Registry.order[3] = last.event.id
  /\ Registry.agents[Registry.order[1]].x = 116
  /\ Registry.agents[Registry.order[1]].y = 360
  /\ Registry.agents[Registry.order[2]].x = 276
  /\ Registry.agents[Registry.order[2]].y = 360
  /\ Registry.agents[Registry.order[3]].x = 116
  /\ Registry.agents[Registry.order[3]].y = 240

(***************************************************************************)
(* C28: whenever the most recently supplied viewport has non-zero width    *)
(* and height, no two distinct registered agents occupy the same grid cell *)
(* or the same (x, y) position, after any sequence of spawn, remove and    *)
(* resize operations.                                                      *)
(***************************************************************************)
C28_NoTwoAgentsOnOneCell ==
  (Registry.layoutSize.width # 0 /\ Registry.layoutSize.height # 0) =>
    \A a, b \in DOMAIN Registry.agents :
      a # b =>
        /\ IndexOf(Registry.order, a) # IndexOf(Registry.order, b)
        /\ \/ Registry.agents[a].x # Registry.agents[b].x
           \/ Registry.agents[a].y # Registry.agents[b].y

\* Three agents after a resize to a viewport of one column: one above the
\* other, on three different rows.
C28_Witness ==
  /\ last.op = "resize"
  /\ Registry.layoutSize = [width |-> 232, height |-> 600]
  /\ Len(Registry.order) = 3
  /\ \A i \in 1..3 :
       /\ Registry.agents[Registry.order[i]].x = 116
       /\ Registry.agents[Registry.order[i]].y = 432 - (i - 1) * 120

(***************************************************************************)
(* C29: removal forgets the agent completely: after remove(id) followed    *)
(* later by spawn(id, name), the agent is a fresh one with visual state    *)
(* idle, status label "IDLE", the newly given name, and the last position  *)
(* of the order list; it does not regain the state, label or order         *)
(* position it had before the remove.                                      *)
(***************************************************************************)
\* applyEvent of the running build.
ApplyEvent(m, event) ==
  IF variant = "phaser" THEN Phaser_applyEvent(m, event)
  ELSE Pixi_applyEvent(m, event)

\* Agent id of registry m is as a first spawn with this name makes it, and
\* is the last of the order list.
Fresh(m, id, name) ==
  /\ Has(m.agents, id)
  /\ m.agents[id].state = "idle"
  /\ m.agents[id].status = "IDLE"
  /\ m.agents[id].name = Coalesce(name, "Codex Agent")
  /\ variant = "phaser" => Has(m.stateById, id) /\ m.stateById[id] = "idle"
  /\ id \in OrderIds(m)
  /\ IndexOf(m.order, id) = Len(m.order) - 1

\* The events that may come between the remove and the spawn of id.
Between(id) == {e \in CodexEvent : ~(e.type = "spawn" /\ e.id = id)}

\* From every reachable registry and for every registered agent, whatever
\* its state, label and index: remove(id), then any other event (also a
\* state event for the removed id, the name then being a given one), then
\* spawn(id, name) leaves a fresh agent at the end of the order list.
C29_RemovalForgets ==
  \A id \in DOMAIN Registry.agents, name \in NameInputs :
    LET removed == ApplyEvent(Registry, [type |-> "remove", id |-> id])
        spawn == [type |-> "spawn", id |-> id, name |-> name]
    IN  /\ ~Has(removed.agents, id)
        /\ Fresh(ApplyEvent(removed, spawn), id, name)
        /\ name # Undefined =>
             \A e \in Between(id) :
               Fresh(ApplyEvent(ApplyEvent(removed, e), spawn), id, name)

\* The agent that stood first was removed and the same id spawned again
\* with a name: it is idle, labelled IDLE, named as given, and stands behind
\* the other agent, which is working.
C29_Witness ==
  /\ LastSpawn /\ ~last.known /\ last.freed = 0
  /\ last.event.name = "Builder"
  /\ Len(Registry.order) = 2
  /\ Registry.order[2] = last.event.id
  /\ Fresh(Registry, last.event.id, "Builder")
  /\ Registry.agents[Registry.order[1]].state = "working"

(***************************************************************************)
(* C30: setState has no transition guard: from any current state (idle,    *)
(* working or done) a work, idle or done event for a registered id moves   *)
(* the agent to the target state, so a done agent can return to working or *)
(* idle and the summary counts follow; no state event for a known id is    *)
(* ever rejected.                                                          *)
(***************************************************************************)
\* The summary after one agent went from one state to another.
SummaryMoved(summary, from, to) ==
  LET moved(state, n) ==
        n - (IF from = state THEN 1 ELSE 0) + (IF to = state THEN 1 ELSE 0)
  IN  [total |-> summary.total,
       working |-> moved("working", summary.working),
       idle |-> moved("idle", summary.idle),
       done |-> moved("done", summary.done)]

C30_NoTransitionGuard ==
  [][(LastState' /\ last'.known) =>
       LET id == last'.event.id
           target == TargetState(last'.event.type)
           from == Registry.agents[id].state
       IN  /\ Has(Registry'.agents, id)
           /\ Registry'.agents[id].state = target
           /\ \A o \in DOMAIN Registry.agents \ {id} :
                Registry'.agents[o].state = Registry.agents[o].state
           /\ variant = "phaser" =>
                /\ phaser'.stateById[id] = target
                /\ getSummary(phaser') =
                     SummaryMoved(getSummary(phaser), from, target)]_vars

\* A work event has just found its agent done and put it back to work: the
\* Phaser registry counts one working agent and none done.
C30_Witness ==
  /\ variant = "phaser"
  /\ LastState /\ last.known /\ last.wasDone
  /\ last.event.type = "work"
  /\ phaser.agents[last.event.id].state = "working"
  /\ getSummary(phaser) = [total |-> 1, working |-> 1, idle |-> 0, done |-> 0]

(***************************************************************************)
(* C31: the mock generator drives each agent through a well-formed         *)
(* lifecycle: every id it creates is fresh (never reused), its events      *)
(* reach the scene in the order spawn, work, done, remove under every      *)
(* interleaving with the timers of other mock agents, and the number of    *)
(* mock agents spawned but not yet removed never exceeds 6.                *)
(***************************************************************************)
\* The types of the pending timeouts of id, in the order they were set.
PendingOf(id) ==
  LET types(s) == [i \in 1..Len(s) |-> s[i].type]
  IN  types(SelectSeq(mock.timers, LAMBDA t : t.id = id))

\* The ids that the generator has made so far.
MockIdsMade == {mockId(n) : n \in 1..(mock.counter - 1)}

\* The generator and the scene agree: the active ids are the registered
\* agents, at most six, all made by the generator, and each agent is as far
\* in spawn, work, done, remove as the timeouts of its id that have run.
MockLifecycle ==
  /\ Cardinality(mock.active) <= 6
  /\ mock.active = DOMAIN phaser.agents
  /\ mock.active \subseteq MockIdsMade
  /\ \A id \in MockIdsMade \ mock.active : PendingOf(id) = <<>>
  /\ \A id \in mock.active :
       LET agent == phaser.agents[id]
       IN  \/ /\ PendingOf(id) = <<"work", "done", "remove">>
              /\ agent.state = "idle" /\ agent.status = "IDLE"
           \/ /\ PendingOf(id) = <<"done", "remove">>
              /\ agent.state = "working" /\ agent.status = "Building"
           \/ /\ PendingOf(id) = <<"remove">>
              /\ agent.state = "done" /\ agent.status = "Complete"

====
